---- MODULE Spec2Model ----
(***************************************************************************)
(* A model of binary-security-check: the ELF and PE analyzers, the         *)
(* CheckedFunction / NeededLibC name handling and the fortify-source       *)
(* status.  Every check of an analyzer is one action; the inputs (the      *)
(* parsed object, the resolved C runtime library, the mapped bytes) are    *)
(* drawn in Init from bounded sets.                                        *)
(***************************************************************************)
EXTENDS Integers, Sequences, FiniteSets, TLC

VARIABLES
    elf,             \* the goblin::elf::Elf under analysis
    libc,            \* NeededLibC.checked_functions: a set of CheckedFunction
    pe,              \* the goblin::pe::PE under analysis
    bytes,           \* the mapped file, BinaryParser::bytes()
    overflow_checks, \* whether the build panics on integer overflow
    query,           \* the unchecked name a CheckedFunction is derived from
    checked,         \* the CheckedFunction values built from it, and lookups
    status,          \* an ELFFortifySourceStatus
    buffer,          \* what display_in_color_term wrote
    archive,         \* the members of the goblin::archive::Archive, in order
    examined,        \* how many members has_stack_protection has extracted
    error,           \* the Err an analysis returned, if it did
    sysroot,         \* options.sysroot
    ld_so_cache_file,\* the dynamic linker cache Cache::load() reads
    fs,              \* the library files of the file system
    libraries,       \* elf.libraries: the DT_NEEDED names, in order
    e_machine,       \* elf.header.e_machine
    libc_spec,       \* ARGS.flag_libc_spec
    verbose,         \* options.verbose: log_enabled!(log::Level::Debug)
    LIBC_RESOLVER,   \* the OnceLock<Option<LibCResolver>>
    loads,           \* how many times Cache::load() has run
    tasks,           \* per task: where it is in LibCResolver::get and after
    input_files,     \* options.input_files, in order
    results,         \* per input file: what process_file returned, once it has
    color_buffers,   \* per input file: what process_file wrote to its color buffer
    successes,       \* run's SuccessResults
    errors,          \* run's ErrorResults
    exit_code,       \* main's exit_code
    stdout,          \* the paths whose results main printed, in order
    logged,          \* the paths whose errors main displayed, in order
    parsers,         \* the BinaryParser of each file being opened, used or dropped
    pc,              \* the next check of the analysis, or how it ended
    out              \* Vec of the verdicts produced so far, in order

elfIn == <<elf, libc>>
peIn == <<pe, bytes, overflow_checks>>
nameIn == <<query, checked>>
statusIn == <<status, buffer>>
libcIn == <<sysroot, ld_so_cache_file, fs, libraries, e_machine, libc_spec, verbose>>
libcSt == <<LIBC_RESOLVER, loads, tasks>>
mainSt == <<input_files, results, color_buffers, successes, errors, exit_code, stdout,
           logged>>
restIn == <<archive, examined, error, libcIn, libcSt, mainSt>>
vars == <<elf, libc, pe, bytes, overflow_checks, query, checked,
          status, buffer, archive, examined, error,
          sysroot, ld_so_cache_file, fs, libraries, e_machine, libc_spec, verbose,
          LIBC_RESOLVER, loads, tasks,
          input_files, results, color_buffers, successes, errors, exit_code, stdout,
          logged, parsers, pc, out>>

(***************************************************************************)
(* Option<T> is a sequence of length 0 (None) or 1 (Some).                 *)
(***************************************************************************)
None == <<>>
Some(x) == <<x>>
IsSome(o) == Len(o) = 1
Unwrap(o) == o[1]

SeqsUpTo(S, n) == UNION {[1..k -> S] : k \in 0..n}

\* x & mask /= 0, for a mask with a single bit set.
BitIsSet(x, mask) == (x \div mask) % 2 = 1

(***************************************************************************)
(* Bounds of the model.                                                    *)
(***************************************************************************)
MaxProgramHeaders == 2
MaxDyns == 2
MaxSyms == 2
MaxDynSyms == 2
MaxNameLen == 3

(***************************************************************************)
(* ELF numbers used by the analyzer.                                       *)
(***************************************************************************)
ET_NONE == 0
ET_REL == 1
ET_EXEC == 2
ET_DYN == 3
ET_CORE == 4
PT_LOAD == 1
PT_PHDR == 6
PT_GNU_RELRO == 1685382482
DT_NEEDED == 1
DT_BIND_NOW == 24
DT_FLAGS == 30
DT_FLAGS_1 == 1879048187
DF_SYMBOLIC == 2
DF_BIND_NOW == 8
DF_1_NOW == 1
DF_1_PIE == 134217728
STT_NOTYPE == 0
STT_OBJECT == 1
STT_FUNC == 2
STT_GNU_IFUNC == 10
STB_LOCAL == 0
STB_GLOBAL == 1
STB_WEAK == 2
STB_GNU_UNIQUE == 10
STV_DEFAULT == 0
STV_HIDDEN == 2

(***************************************************************************)
(* Names are sequences of one-character strings.                           *)
(***************************************************************************)
Prefix == <<"_", "_">>
Suffix == <<"_", "c", "h", "k">>
STACK_CHK_FAIL ==
    <<"_", "_", "s", "t", "a", "c", "k", "_", "c", "h", "k", "_", "f", "a", "i", "l">>
STACK_CHK_FAIL_LOCAL == STACK_CHK_FAIL \o <<"_", "l", "o", "c", "a", "l">>

\* What a string table answers for a symbol's st_name: no entry, bytes that
\* are not UTF-8, or a string.
StrNone == [kind |-> "none", s |-> <<>>]
StrBad == [kind |-> "bad", s |-> <<>>]
Str(s) == [kind |-> "str", s |-> s]

\* strtab.get(st_name).and_then(Result::ok).filter(|name| !name.is_empty())
NonEmptyName(name) ==
    IF name.kind = "str" /\ name.s # <<>> THEN Some(name.s) ELSE None

Sym(t, b, o, v, n) ==
    [st_type |-> t, st_bind |-> b, st_other |-> o, st_value |-> v, name |-> n]

(***************************************************************************)
(* elf/mod.rs                                                              *)
(***************************************************************************)
supports_aslr_requiring_pie_marker(e) ==
    IF e.e_type = ET_EXEC THEN "Unsupported"
    ELSE IF e.e_type = ET_DYN
              /\ ((\E i \in 1..Len(e.program_headers) :
                       e.program_headers[i] = PT_PHDR)
                  \/ (IsSome(e.dynamic)
                      /\ \E i \in 1..Len(Unwrap(e.dynamic)) :
                             /\ Unwrap(e.dynamic)[i].d_tag = DT_FLAGS_1
                             /\ BitIsSet(Unwrap(e.dynamic)[i].d_val, DF_1_PIE)))
         THEN "Supported"
    ELSE "Unknown"

supports_aslr(e) ==
    CASE e.e_type = ET_EXEC -> "Unsupported"
      [] e.e_type = ET_DYN -> "Supported"
      [] OTHER -> "Unknown"

becomes_read_only_after_relocations_first_only(e) ==
    Len(e.program_headers) > 0 /\ e.program_headers[1] = PT_GNU_RELRO

becomes_read_only_after_relocations(e) ==
    \E i \in 1..Len(e.program_headers) : e.program_headers[i] = PT_GNU_RELRO

dynamic_symbol_is_named_function(sym) ==
    IF sym.st_type = STT_FUNC \/ sym.st_type = STT_GNU_IFUNC
    THEN NonEmptyName(sym.name)
    ELSE None

symbol_is_named_function_or_unspecified(sym) ==
    IF sym.st_type = STT_FUNC \/ sym.st_type = STT_GNU_IFUNC
           \/ sym.st_type = STT_NOTYPE
    THEN NonEmptyName(sym.name)
    ELSE None

has_stack_protection_any_type(e) ==
    \E i \in 1..Len(e.dynsyms) :
        NonEmptyName(e.dynsyms[i].name) = Some(STACK_CHK_FAIL)

has_stack_protection(e) ==
    \E i \in 1..Len(e.dynsyms) :
        dynamic_symbol_is_named_function(e.dynsyms[i]) = Some(STACK_CHK_FAIL)

dynamic_linking_info_entry_requires_immediate_binding_no_flags_1(d) ==
    CASE d.d_tag = DT_BIND_NOW -> TRUE
      [] d.d_tag = DT_FLAGS -> BitIsSet(d.d_val, DF_BIND_NOW)
      [] OTHER -> FALSE

dynamic_linking_info_entry_requires_immediate_binding(d) ==
    CASE d.d_tag = DT_BIND_NOW -> TRUE
      [] d.d_tag = DT_FLAGS -> BitIsSet(d.d_val, DF_BIND_NOW)
      [] d.d_tag = DT_FLAGS_1 -> BitIsSet(d.d_val, DF_1_NOW)
      [] OTHER -> FALSE

requires_immediate_binding(e) ==
    IsSome(e.dynamic)
    /\ \E i \in 1..Len(Unwrap(e.dynamic)) :
           dynamic_linking_info_entry_requires_immediate_binding(Unwrap(e.dynamic)[i])

(***************************************************************************)
(* elf/checked_functions.rs                                                *)
(***************************************************************************)
StartsWith(s, p) == Len(s) >= Len(p) /\ SubSeq(s, 1, Len(p)) = p
EndsWith(s, p) == Len(s) >= Len(p) /\ SubSeq(s, Len(s) - Len(p) + 1, Len(s)) = p

from_checked_name(checked_name) == [checked_name |-> checked_name]

from_unchecked_name_single_underscore(unchecked_name) ==
    [checked_name |-> <<"_">> \o unchecked_name \o Suffix]

from_unchecked_name(unchecked_name) ==
    [checked_name |-> Prefix \o unchecked_name \o Suffix]

\* &checked_name[2 .. checked_name.len() - 4]: the slice panics when its end
\* (len - 4, itself an underflow when len < 4) is below its start.
Sliced(name) == [panic |-> FALSE, name |-> name]
SlicePanic == [panic |-> TRUE, name |-> <<>>]

get_unchecked_name_keeps_suffix(cf) ==
    IF Len(cf.checked_name) < Len(Prefix) + Len(Suffix) THEN SlicePanic
    ELSE Sliced(SubSeq(cf.checked_name, Len(Prefix) + 1, Len(cf.checked_name)))

get_unchecked_name(cf) ==
    IF Len(cf.checked_name) < Len(Prefix) + Len(Suffix) THEN SlicePanic
    ELSE Sliced(SubSeq(cf.checked_name, Len(Prefix) + 1,
                       Len(cf.checked_name) - Len(Suffix)))

function_is_checked_version(name) == StartsWith(name, Prefix) /\ EndsWith(name, Suffix)

(***************************************************************************)
(* elf/needed_libc.rs: NeededLibC is its set of CheckedFunction.  A lookup *)
(* answers None, or Some of the slice taken by get_unchecked_name, whose   *)
(* panic is the lookup's.                                                  *)
(***************************************************************************)
Lookup(checked_functions, cf) ==
    IF cf \in checked_functions
    THEN [panic |-> get_unchecked_name(cf).panic,
          name |-> Some(get_unchecked_name(cf).name)]
    ELSE [panic |-> FALSE, name |-> None]

exports_function(checked_functions, checked_name) ==
    Lookup(checked_functions, from_checked_name(checked_name))

exports_checked_version_of_function(checked_functions, unchecked_name) ==
    Lookup(checked_functions, from_unchecked_name(unchecked_name))

(***************************************************************************)
(* elf/mod.rs: the fortify-source scan of the imported functions.          *)
(***************************************************************************)
ImportBindings == {STB_GLOBAL, STB_WEAK, STB_GNU_UNIQUE}

dynamic_symbol_is_named_imported_function_any_value(sym) ==
    IF (sym.st_type = STT_FUNC \/ sym.st_type = STT_GNU_IFUNC)
           /\ sym.st_bind \in ImportBindings
    THEN NonEmptyName(sym.name)
    ELSE None

dynamic_symbol_is_named_imported_function(sym) ==
    IF (sym.st_type = STT_FUNC \/ sym.st_type = STT_GNU_IFUNC)
           /\ sym.st_bind \in ImportBindings
           /\ sym.st_value = 0
    THEN NonEmptyName(sym.name)
    ELSE None

NoFunctions == [panic |-> FALSE, protected |-> {}, unprotected |-> {}]

\* One turn of the loop over imported_functions, from the sets acc.
ClassifyImport(acc, imported_function, checked_functions) ==
    IF acc.panic THEN acc
    ELSE IF function_is_checked_version(imported_function)
    THEN LET r == exports_function(checked_functions, imported_function)
         IN  IF r.panic THEN [acc EXCEPT !.panic = TRUE]
             ELSE IF IsSome(r.name)
                  THEN [acc EXCEPT !.protected = @ \cup {Unwrap(r.name)}]
                  ELSE acc
    ELSE LET r == exports_checked_version_of_function(checked_functions,
                                                      imported_function)
         IN  IF r.panic THEN [acc EXCEPT !.panic = TRUE]
             ELSE IF IsSome(r.name)
                  THEN [acc EXCEPT !.unprotected = @ \cup {Unwrap(r.name)}]
                  ELSE acc

RECURSIVE ScanImports(_, _, _)
ScanImports(dynsyms, n, checked_functions) ==
    IF n = 0 THEN NoFunctions
    ELSE LET acc == ScanImports(dynsyms, n - 1, checked_functions)
             imported == dynamic_symbol_is_named_imported_function(dynsyms[n])
         IN  IF IsSome(imported)
             THEN ClassifyImport(acc, Unwrap(imported), checked_functions)
             ELSE acc

get_libc_functions_by_protection(e, checked_functions) ==
    ScanImports(e.dynsyms, Len(e.dynsyms), checked_functions)

(***************************************************************************)
(* options/status.rs: the verdicts.                                        *)
(***************************************************************************)
YesNoUnknownStatus_new(name, yes_or_no) ==
    [name |-> name, status |-> IF yes_or_no THEN "yes" ELSE "no",
     protected |-> {}, unprotected |-> {}]

YesNoUnknownStatus_unknown(name) ==
    [name |-> name, status |-> "unknown", protected |-> {}, unprotected |-> {}]

Level(name, level) ==
    [name |-> name, status |-> level, protected |-> {}, unprotected |-> {}]

ELFFortifySourceStatus_new(protected_functions, unprotected_functions) ==
    [name |-> "FORTIFY-SOURCE", status |-> "sets",
     protected |-> protected_functions, unprotected |-> unprotected_functions]

(***************************************************************************)
(* Values of the variables an analysis does not use.                       *)
(***************************************************************************)
NoElf == [e_type |-> ET_NONE, program_headers |-> <<>>, dynamic |-> None,
          syms |-> <<>>, dynsyms |-> <<>>]
\* No u16 is negative: NoPe differs from every parsed PE.
NoPe == [is_64 |-> FALSE, coff_characteristics |-> -1,
         optional_header |-> None, sections |-> <<>>]
NoBytes == [len |-> 0, data |-> <<>>]
NoStatus == [protected_functions |-> {}, unprotected_functions |-> {}]

IdleElf == elf = NoElf /\ libc = {}
IdlePe == pe = NoPe /\ bytes = NoBytes /\ overflow_checks = FALSE
IdleName == query = <<>> /\ checked = <<>>
IdleStatus == status = NoStatus /\ buffer = <<>>
IdleArchive == archive = <<>> /\ examined = 0 /\ error = None
Uninitialized == [state |-> "uninit", value |-> None]
NoCache == [loadable |-> FALSE, iterable |-> FALSE, entries |-> <<>>]
IdleLibC ==
    /\ sysroot = None /\ ld_so_cache_file = NoCache /\ fs = {}
    /\ libraries = <<>> /\ e_machine = 0 /\ libc_spec = None /\ verbose = FALSE
    /\ LIBC_RESOLVER = Uninitialized /\ loads = 0 /\ tasks = <<>>
IdleMain ==
    /\ input_files = <<>> /\ results = <<>> /\ color_buffers = <<>>
    /\ successes = <<>> /\ errors = <<>>
    /\ exit_code = 0 /\ stdout = <<>> /\ logged = <<>>
IdleRest == IdleArchive /\ IdleLibC /\ IdleMain

(***************************************************************************)
(* elf::analyze_binary: the five checks, in order.                         *)
(***************************************************************************)
CheckElfAslr ==
    /\ pc = "ASLR"
    /\ out' = Append(out, Level("ASLR", supports_aslr(elf)))
    /\ pc' = "STACK-PROT"
    /\ UNCHANGED <<elfIn, peIn, parsers, restIn, nameIn, statusIn>>

CheckElfStackProtection ==
    /\ pc = "STACK-PROT"
    /\ out' = Append(out, YesNoUnknownStatus_new("STACK-PROT",
                                                 has_stack_protection(elf)))
    /\ pc' = "READ-ONLY-RELOC"
    /\ UNCHANGED <<elfIn, peIn, parsers, restIn, nameIn, statusIn>>

CheckElfReadOnlyAfterRelocations ==
    /\ pc = "READ-ONLY-RELOC"
    /\ out' = Append(out,
                     YesNoUnknownStatus_new("READ-ONLY-RELOC",
                                            becomes_read_only_after_relocations(elf)))
    /\ pc' = "IMMEDIATE-BIND"
    /\ UNCHANGED <<elfIn, peIn, parsers, restIn, nameIn, statusIn>>

CheckElfImmediateBinding ==
    /\ pc = "IMMEDIATE-BIND"
    /\ out' = Append(out, YesNoUnknownStatus_new("IMMEDIATE-BIND",
                                                 requires_immediate_binding(elf)))
    /\ pc' = "FORTIFY-SOURCE"
    /\ UNCHANGED <<elfIn, peIn, parsers, restIn, nameIn, statusIn>>

CheckElfFortifySource ==
    /\ pc = "FORTIFY-SOURCE"
    /\ LET r == get_libc_functions_by_protection(elf, libc)
       IN  IF r.panic
           THEN pc' = "panic" /\ out' = out
           ELSE /\ pc' = "done"
                /\ out' = Append(out, ELFFortifySourceStatus_new(r.protected,
                                                                 r.unprotected))
    /\ UNCHANGED <<elfIn, peIn, parsers, restIn, nameIn, statusIn>>

NextElf ==
    \/ CheckElfAslr
    \/ CheckElfStackProtection
    \/ CheckElfReadOnlyAfterRelocations
    \/ CheckElfImmediateBinding
    \/ CheckElfFortifySource

\* The verdict the analysis produced under a label, if it has.
Produced(name) == \E i \in 1..Len(out) : out[i].name = name
VerdictOf(name) == (CHOOSE i \in 1..Len(out) : out[i].name = name)

(***************************************************************************)
(* ELF inputs: the header, the program headers and the dynamic section.    *)
(***************************************************************************)
ElfTypes == {ET_NONE, ET_REL, ET_EXEC, ET_DYN, ET_CORE}
ProgramHeaderTypes == {PT_LOAD, PT_PHDR, PT_GNU_RELRO}
Dyn(tag, val) == [d_tag |-> tag, d_val |-> val]
DynEntries ==
    {Dyn(DT_NEEDED, 1), Dyn(DT_BIND_NOW, 0),
     Dyn(DT_FLAGS, DF_BIND_NOW + DF_SYMBOLIC), Dyn(DT_FLAGS, DF_SYMBOLIC),
     Dyn(DT_FLAGS_1, DF_1_NOW), Dyn(DT_FLAGS_1, DF_1_PIE),
     Dyn(DT_FLAGS_1, DF_1_NOW + DF_1_PIE)}

InitElfHdr ==
    /\ elf \in [e_type : ElfTypes,
                program_headers : SeqsUpTo(ProgramHeaderTypes, MaxProgramHeaders),
                dynamic : {None} \cup {Some(d) : d \in SeqsUpTo(DynEntries, MaxDyns)},
                syms : {<<>>},
                dynsyms : {<<>>}]
    /\ libc = {}
    /\ IdlePe /\ IdleName /\ IdleStatus /\ IdleRest
    /\ pc = "ASLR"
    /\ out = <<>>
    /\ parsers = <<>>

SpecElfHdr == InitElfHdr /\ [][NextElf]_vars

(***************************************************************************)
(* ELF inputs: the symbol table and the dynamic symbol table, for the      *)
(* stack-protection check.                                                 *)
(***************************************************************************)
MAIN == <<"m", "a", "i", "n">>

StaticSymbols ==
    {Sym(STT_FUNC, STB_GLOBAL, STV_DEFAULT, 0, Str(STACK_CHK_FAIL)),
     Sym(STT_NOTYPE, STB_GLOBAL, STV_DEFAULT, 0, Str(STACK_CHK_FAIL_LOCAL)),
     Sym(STT_OBJECT, STB_GLOBAL, STV_DEFAULT, 1, Str(STACK_CHK_FAIL)),
     Sym(STT_FUNC, STB_GLOBAL, STV_DEFAULT, 1, Str(MAIN))}

StackDynamicSymbols ==
    {Sym(STT_FUNC, STB_GLOBAL, STV_DEFAULT, 0, Str(STACK_CHK_FAIL)),
     Sym(STT_GNU_IFUNC, STB_WEAK, STV_DEFAULT, 1, Str(STACK_CHK_FAIL)),
     Sym(STT_NOTYPE, STB_GLOBAL, STV_DEFAULT, 0, Str(STACK_CHK_FAIL)),
     Sym(STT_OBJECT, STB_GLOBAL, STV_DEFAULT, 1, Str(STACK_CHK_FAIL)),
     Sym(STT_FUNC, STB_GLOBAL, STV_DEFAULT, 0, Str(STACK_CHK_FAIL_LOCAL)),
     Sym(STT_FUNC, STB_GLOBAL, STV_DEFAULT, 0, Str(<<>>)),
     Sym(STT_FUNC, STB_GLOBAL, STV_DEFAULT, 0, StrBad),
     Sym(STT_FUNC, STB_GLOBAL, STV_DEFAULT, 0, StrNone)}

InitElfStack ==
    /\ elf \in [e_type : {ET_EXEC, ET_DYN},
                program_headers : {<<PT_LOAD>>},
                dynamic : {None},
                syms : SeqsUpTo(StaticSymbols, MaxSyms),
                dynsyms : SeqsUpTo(StackDynamicSymbols, MaxDynSyms)]
    /\ libc = {}
    /\ IdlePe /\ IdleName /\ IdleStatus /\ IdleRest
    /\ pc = "ASLR"
    /\ out = <<>>
    /\ parsers = <<>>

SpecElfStack == InitElfStack /\ [][NextElf]_vars

(***************************************************************************)
(* ELF inputs: the dynamic symbol table and the resolved C runtime         *)
(* library, for the fortify-source check.  __chk is the shortest name      *)
(* function_is_checked_version accepts.                                    *)
(***************************************************************************)
F == <<"f">>
G == <<"g">>
F_CHK == <<"_", "_", "f", "_", "c", "h", "k">>
G_CHK == <<"_", "_", "g", "_", "c", "h", "k">>
CHK == <<"_", "_", "c", "h", "k">>

FortifyDynamicSymbols ==
    {Sym(STT_FUNC, STB_GLOBAL, STV_DEFAULT, 0, Str(F)),
     Sym(STT_GNU_IFUNC, STB_WEAK, STV_DEFAULT, 0, Str(G)),
     Sym(STT_FUNC, STB_GLOBAL, STV_DEFAULT, 0, Str(F_CHK)),
     Sym(STT_FUNC, STB_GNU_UNIQUE, STV_DEFAULT, 0, Str(G_CHK)),
     Sym(STT_FUNC, STB_GLOBAL, STV_DEFAULT, 0, Str(CHK)),
     Sym(STT_FUNC, STB_LOCAL, STV_DEFAULT, 0, Str(F)),
     Sym(STT_FUNC, STB_GLOBAL, STV_DEFAULT, 1, Str(F)),
     Sym(STT_FUNC, STB_GLOBAL, STV_DEFAULT, 1, Str(G_CHK)),
     Sym(STT_OBJECT, STB_GLOBAL, STV_DEFAULT, 0, Str(F_CHK)),
     Sym(STT_FUNC, STB_GLOBAL, STV_DEFAULT, 0, Str(MAIN)),
     Sym(STT_FUNC, STB_GLOBAL, STV_DEFAULT, 0, Str(<<>>)),
     Sym(STT_FUNC, STB_GLOBAL, STV_DEFAULT, 0, StrBad)}

\* The libraries get_checked_functions_elf can build from exported symbols
\* named __f_chk, __g_chk and __chk.
ResolvedLibCs ==
    SUBSET {from_checked_name(F_CHK), from_checked_name(G_CHK),
            from_checked_name(CHK)}

InitElfFortify ==
    /\ elf \in [e_type : {ET_DYN},
                program_headers : {<<PT_LOAD>>},
                dynamic : {None},
                syms : {<<>>},
                dynsyms : SeqsUpTo(FortifyDynamicSymbols, MaxDynSyms)]
    /\ libc \in ResolvedLibCs
    /\ IdlePe /\ IdleName /\ IdleStatus /\ IdleRest
    /\ pc = "ASLR"
    /\ out = <<>>
    /\ parsers = <<>>

SpecElfFortify == InitElfFortify /\ [][NextElf]_vars

(***************************************************************************)
(* CheckedFunction and the two lookups of NeededLibC, applied to one       *)
(* unchecked name: from_unchecked_name, get_unchecked_name,                *)
(* from_checked_name of the name written out, get_unchecked_name,          *)
(* exports_checked_version_of_function, exports_function.                  *)
(***************************************************************************)
Alphabet == {"_", "c", "k", "f"}
UNDERSCORE_CHK == <<"_", "_", "_", "c", "h", "k">>
UNDERSCORE2_CHK == <<"_", "_", "_", "_", "c", "h", "k">>

QueriedLibCs ==
    SUBSET {from_checked_name(CHK), from_checked_name(UNDERSCORE_CHK),
            from_checked_name(UNDERSCORE2_CHK), from_checked_name(F_CHK)}

\* format!("__{unchecked_name}_chk"), as the caller of from_checked_name
\* writes it.
CheckedNameOf(u) == <<"_", "_">> \o u \o <<"_", "c", "h", "k">>

BuildFromUnchecked ==
    /\ pc = "from_unchecked_name"
    /\ checked' = Append(checked, from_unchecked_name(query))
    /\ pc' = "get_unchecked_name_1"
    /\ UNCHANGED <<elfIn, peIn, parsers, restIn, query, statusIn, out>>

SliceFromUnchecked ==
    /\ pc = "get_unchecked_name_1"
    /\ checked' = Append(checked, get_unchecked_name(checked[1]))
    /\ pc' = "from_checked_name"
    /\ UNCHANGED <<elfIn, peIn, parsers, restIn, query, statusIn, out>>

BuildFromChecked ==
    /\ pc = "from_checked_name"
    /\ checked' = Append(checked, from_checked_name(CheckedNameOf(query)))
    /\ pc' = "get_unchecked_name_2"
    /\ UNCHANGED <<elfIn, peIn, parsers, restIn, query, statusIn, out>>

SliceFromChecked ==
    /\ pc = "get_unchecked_name_2"
    /\ checked' = Append(checked, get_unchecked_name(checked[3]))
    /\ pc' = "exports_checked_version_of_function"
    /\ UNCHANGED <<elfIn, peIn, parsers, restIn, query, statusIn, out>>

LookupCheckedVersion ==
    /\ pc = "exports_checked_version_of_function"
    /\ checked' = Append(checked, exports_checked_version_of_function(libc, query))
    /\ pc' = "exports_function"
    /\ UNCHANGED <<elfIn, peIn, parsers, restIn, query, statusIn, out>>

LookupFunction ==
    /\ pc = "exports_function"
    /\ checked' = Append(checked, exports_function(libc, CheckedNameOf(query)))
    /\ pc' = "done"
    /\ UNCHANGED <<elfIn, peIn, parsers, restIn, query, statusIn, out>>

NextChecked ==
    \/ BuildFromUnchecked
    \/ SliceFromUnchecked
    \/ BuildFromChecked
    \/ SliceFromChecked
    \/ LookupCheckedVersion
    \/ LookupFunction

InitChecked ==
    /\ query \in SeqsUpTo(Alphabet, MaxNameLen)
    /\ checked = <<>>
    /\ elf = NoElf
    /\ libc \in QueriedLibCs
    /\ IdlePe /\ IdleStatus /\ IdleRest
    /\ pc = "from_unchecked_name"
    /\ out = <<>>
    /\ parsers = <<>>

SpecChecked == InitChecked /\ [][NextChecked]_vars

(***************************************************************************)
(* options/status.rs: display_in_color_term of an ELFFortifySourceStatus.  *)
(***************************************************************************)
MARKER_GOOD == "+"
MARKER_BAD == "!"
MARKER_MAYBE == "~"
MARKER_UNKNOWN == "?"
COLOR_GOOD == "Green"
COLOR_BAD == "Red"
COLOR_UNKNOWN == "Yellow"

FortifyMarker_swapped(st) ==
    LET no_protected_functions == st.protected_functions = {}
        no_unprotected_functions == st.unprotected_functions = {}
    IN  CASE no_protected_functions /\ no_unprotected_functions ->
                 <<MARKER_UNKNOWN, COLOR_UNKNOWN>>
          [] no_protected_functions /\ ~no_unprotected_functions ->
                 <<MARKER_GOOD, COLOR_GOOD>>
          [] ~no_protected_functions /\ no_unprotected_functions ->
                 <<MARKER_BAD, COLOR_BAD>>
          [] OTHER -> <<MARKER_MAYBE, COLOR_UNKNOWN>>

FortifyMarker(st) ==
    LET no_protected_functions == st.protected_functions = {}
        no_unprotected_functions == st.unprotected_functions = {}
    IN  CASE no_protected_functions /\ no_unprotected_functions ->
                 <<MARKER_UNKNOWN, COLOR_UNKNOWN>>
          [] no_protected_functions /\ ~no_unprotected_functions ->
                 <<MARKER_BAD, COLOR_BAD>>
          [] ~no_protected_functions /\ no_unprotected_functions ->
                 <<MARKER_GOOD, COLOR_GOOD>>
          [] OTHER -> <<MARKER_MAYBE, COLOR_UNKNOWN>>

\* The writes: the marker and label in the marker's colour, then the
\* protected names in COLOR_GOOD and the unprotected names in COLOR_BAD.
DisplayFortifySource ==
    /\ pc = "display"
    /\ buffer' = buffer \o
           <<[color |-> FortifyMarker(status)[2],
              text |-> <<FortifyMarker(status)[1], "FORTIFY-SOURCE">>,
              names |-> {}],
             [color |-> COLOR_GOOD, text |-> <<MARKER_GOOD>>,
              names |-> status.protected_functions],
             [color |-> COLOR_BAD, text |-> <<MARKER_BAD>>,
              names |-> status.unprotected_functions]>>
    /\ pc' = "done"
    /\ UNCHANGED <<elfIn, peIn, parsers, restIn, nameIn, status, out>>

NextStatus == DisplayFortifySource

StatusNames == {F, G, MAIN}

InitStatus ==
    /\ status \in [protected_functions : SUBSET StatusNames,
                   unprotected_functions : SUBSET StatusNames]
    /\ buffer = <<>>
    /\ IdleElf /\ IdlePe /\ IdleName /\ IdleRest
    /\ pc = "display"
    /\ out = <<>>
    /\ parsers = <<>>

SpecStatus == InitStatus /\ [][NextStatus]_vars

(***************************************************************************)
(* pe/mod.rs: the checks on the COFF and optional headers.                 *)
(***************************************************************************)
IMAGE_DLLCHARACTERISTICS_NX_COMPAT == 256
IMAGE_DLLCHARACTERISTICS_APPCONTAINER == 4096
IMAGE_DLLCHARACTERISTICS_FORCE_INTEGRITY == 128
IMAGE_DLLCHARACTERISTICS_NO_ISOLATION == 512
IMAGE_DLLCHARACTERISTICS_DYNAMIC_BASE == 64
IMAGE_DLLCHARACTERISTICS_GUARD_CF == 16384
IMAGE_FILE_LARGE_ADDRESS_AWARE == 32
IMAGE_DLLCHARACTERISTICS_HIGH_ENTROPY_VA == 32
IMAGE_FILE_RELOCS_STRIPPED == 1

dll_characteristics_bit_is_set(p, mask) ==
    IF IsSome(p.optional_header)
    THEN Some(BitIsSet(Unwrap(p.optional_header).dll_characteristics, mask))
    ELSE None

supports_control_flow_guard_without_dynamic_base(p) ==
    IF IsSome(p.optional_header)
    THEN IF BitIsSet(Unwrap(p.optional_header).dll_characteristics,
                     IMAGE_DLLCHARACTERISTICS_GUARD_CF)
         THEN "Supported"
         ELSE "Unsupported"
    ELSE "Unknown"

supports_control_flow_guard(p) ==
    IF IsSome(p.optional_header)
    THEN IF BitIsSet(Unwrap(p.optional_header).dll_characteristics,
                     IMAGE_DLLCHARACTERISTICS_GUARD_CF)
         THEN IF BitIsSet(Unwrap(p.optional_header).dll_characteristics,
                          IMAGE_DLLCHARACTERISTICS_DYNAMIC_BASE)
              THEN "Supported"
              ELSE "Ineffective"
         ELSE "Unsupported"
    ELSE "Unknown"

has_check_sum(p) ==
    IF IsSome(p.optional_header)
    THEN Some(Unwrap(p.optional_header).check_sum # 0)
    ELSE None

handles_addresses_larger_than_2_gigabytes(p) ==
    BitIsSet(p.coff_characteristics, IMAGE_FILE_LARGE_ADDRESS_AWARE)

\* The levels once IMAGE_DLLCHARACTERISTICS_DYNAMIC_BASE is set.
AslrWithDynamicBase(p, dll_characteristics) ==
    IF BitIsSet(dll_characteristics, IMAGE_DLLCHARACTERISTICS_HIGH_ENTROPY_VA)
    THEN IF handles_addresses_larger_than_2_gigabytes(p)
         THEN "Supported"
         ELSE "SupportedBelow2G"
    ELSE IF handles_addresses_larger_than_2_gigabytes(p)
         THEN IF p.is_64 THEN "SupportedLowEntropy" ELSE "Supported"
         ELSE IF p.is_64 THEN "SupportedLowEntropyBelow2G" ELSE "SupportedBelow2G"

pe_supports_aslr_header_first(p) ==
    IF ~IsSome(p.optional_header) THEN "Unknown"
    ELSE IF BitIsSet(p.coff_characteristics, IMAGE_FILE_RELOCS_STRIPPED)
    THEN "Unsupported"
    ELSE IF BitIsSet(Unwrap(p.optional_header).dll_characteristics,
                     IMAGE_DLLCHARACTERISTICS_DYNAMIC_BASE)
    THEN AslrWithDynamicBase(p, Unwrap(p.optional_header).dll_characteristics)
    ELSE "Expensive"

pe_supports_aslr(p) ==
    IF BitIsSet(p.coff_characteristics, IMAGE_FILE_RELOCS_STRIPPED)
    THEN "Unsupported"
    ELSE IF IsSome(p.optional_header)
    THEN IF BitIsSet(Unwrap(p.optional_header).dll_characteristics,
                     IMAGE_DLLCHARACTERISTICS_DYNAMIC_BASE)
         THEN AslrWithDynamicBase(p, Unwrap(p.optional_header).dll_characteristics)
         ELSE "Expensive"
    ELSE "Unknown"

(***************************************************************************)
(* pe/mod.rs: Safe-SEH.  A u32 is a pair of 16-bit limbs, so that sums of  *)
(* addresses near 2^32 are computed at their width.  An overflowing u32    *)
(* addition panics in a build with overflow checks and wraps in a build    *)
(* without them.                                                           *)
(***************************************************************************)
Limb == 65536
U32(hi, lo) == [hi |-> hi, lo |-> lo]
U32Of(n) == U32(n \div Limb, n % Limb)
U32Le(a, b) == a.hi < b.hi \/ (a.hi = b.hi /\ a.lo <= b.lo)
U32Add(a, b) ==
    LET lo == a.lo + b.lo
        hi == a.hi + b.hi + (lo \div Limb)
    IN  [overflow |-> hi >= Limb, value |-> U32(hi % Limb, lo % Limb)]
U32Sub(a, b) ==
    LET borrow == IF a.lo < b.lo THEN 1 ELSE 0
        lo == a.lo + borrow * Limb - b.lo
        hi == a.hi - b.hi - borrow
    IN  [overflow |-> hi < 0, value |-> U32((hi + Limb) % Limb, lo)]
\* usize is wider than u32: adding a small offset to a u32 never wraps.
UsizeAdd(a, k) == U32(a.hi + ((a.lo + k) \div Limb), (a.lo + k) % Limb)

IMAGE_SCN_CNT_INITIALIZED_DATA == 64
IMAGE_SCN_MEM_READ == 1073741824
RDATA_CHARACTERISTICS == {IMAGE_SCN_CNT_INITIALIZED_DATA, IMAGE_SCN_MEM_READ}
PDATA_CHARACTERISTICS == {IMAGE_SCN_CNT_INITIALIZED_DATA, IMAGE_SCN_MEM_READ}
\* (characteristics & mask) == mask, the mask given as its set of bits.
HasAllBits(characteristics, mask) ==
    \A bit \in mask : BitIsSet(characteristics, bit)

PDATA == <<".", "p", "d", "a", "t", "a">>
RDATA == <<".", "r", "d", "a", "t", "a">>

\* #[repr(C)] layouts, up to SEHandlerCount: <<field, size, alignment>>.
ImageLoadConfigDirectory32 ==
    << <<"Size", 4, 4>>, <<"TimeDateStamp", 4, 4>>, <<"MajorVersion", 2, 2>>,
       <<"MinorVersion", 2, 2>>, <<"GlobalFlagsClear", 4, 4>>,
       <<"GlobalFlagsSet", 4, 4>>, <<"CriticalSectionDefaultTimeout", 4, 4>>,
       <<"DeCommitFreeBlockThreshold", 4, 4>>,
       <<"DeCommitTotalFreeThreshold", 4, 4>>, <<"LockPrefixTable", 4, 4>>,
       <<"MaximumAllocationSize", 4, 4>>, <<"VirtualMemoryThreshold", 4, 4>>,
       <<"ProcessHeapFlags", 4, 4>>, <<"ProcessAffinityMask", 4, 4>>,
       <<"CSDVersion", 2, 2>>, <<"DependentLoadFlags", 2, 2>>,
       <<"EditList", 4, 4>>, <<"SecurityCookie", 4, 4>>,
       <<"SEHandlerTable", 4, 4>>, <<"SEHandlerCount", 4, 4>> >>
ImageLoadConfigDirectory64 ==
    << <<"Size", 4, 4>>, <<"TimeDateStamp", 4, 4>>, <<"MajorVersion", 2, 2>>,
       <<"MinorVersion", 2, 2>>, <<"GlobalFlagsClear", 4, 4>>,
       <<"GlobalFlagsSet", 4, 4>>, <<"CriticalSectionDefaultTimeout", 4, 4>>,
       <<"DeCommitFreeBlockThreshold", 8, 8>>,
       <<"DeCommitTotalFreeThreshold", 8, 8>>, <<"LockPrefixTable", 8, 8>>,
       <<"MaximumAllocationSize", 8, 8>>, <<"VirtualMemoryThreshold", 8, 8>>,
       <<"ProcessAffinityMask", 8, 8>>, <<"ProcessHeapFlags", 4, 4>>,
       <<"CSDVersion", 2, 2>>, <<"DependentLoadFlags", 2, 2>>,
       <<"EditList", 8, 8>>, <<"SecurityCookie", 8, 8>>,
       <<"SEHandlerTable", 8, 8>>, <<"SEHandlerCount", 8, 8>> >>

AlignUp(n, a) == ((n + a - 1) \div a) * a
RECURSIVE OffsetAt(_, _)
OffsetAt(ty, i) ==
    IF i = 1 THEN 0
    ELSE AlignUp(OffsetAt(ty, i - 1) + ty[i - 1][2], ty[i][3])
FieldIndex(ty, field) == CHOOSE i \in 1..Len(ty) : ty[i][1] = field
offset_of(ty, field) == OffsetAt(ty, FieldIndex(ty, field))
size_of_u32(ty, field) == 4

size_of(ty, field) == ty[FieldIndex(ty, field)][2]

\* scroll's pread_with(offset, LE) of an unsigned integer `width` bytes wide:
\* None for an error, else the value as 16-bit limbs, lowest first.
ByteAt(b, i) == IF i \in DOMAIN b.data THEN b.data[i] ELSE 0
pread_with(b, offset, width) ==
    IF offset.hi = 0 /\ offset.lo + width <= b.len
    THEN Some([k \in 1..(width \div 2) |->
                  ByteAt(b, offset.lo + 2 * (k - 1))
                  + 256 * ByteAt(b, offset.lo + 2 * (k - 1) + 1)])
    ELSE None
\* limbs >= n, for a small n.
LimbsAtLeast(limbs, n) ==
    \/ \E k \in 2..Len(limbs) : limbs[k] # 0
    \/ limbs[1] >= n

Returned(v) == [panic |-> FALSE, value |-> v]
Panicked == [panic |-> TRUE, value |-> None]

has_pdata_section(p) ==
    \E i \in 1..Len(p.sections) :
        /\ HasAllBits(p.sections[i].characteristics, PDATA_CHARACTERISTICS)
        /\ p.sections[i].name = Str(PDATA)

image_load_configuration_directory_has_safe_seh_handlers(b, p, section, load_config_table, oc) ==
    LET ty == IF p.is_64 THEN ImageLoadConfigDirectory64
              ELSE ImageLoadConfigDirectory32
        offset_of_se_handler_count == offset_of(ty, "SEHandlerCount")
        size_of_se_handler_count == size_of(ty, "SEHandlerCount")
        config_table_offset_in_section ==
            U32Sub(load_config_table.virtual_address, section.virtual_address)
        config_table_offset_in_file ==
            U32Add(section.pointer_to_raw_data,
                   config_table_offset_in_section.value)
        se_handler_count_offset_in_file ==
            UsizeAdd(config_table_offset_in_file.value,
                     offset_of_se_handler_count)
        load_config_directory_size ==
            pread_with(b, config_table_offset_in_file.value,
                       size_of(ty, "Size"))
        se_handler_count ==
            pread_with(b, se_handler_count_offset_in_file,
                       size_of_se_handler_count)
    IN  IF oc /\ (config_table_offset_in_section.overflow
                  \/ config_table_offset_in_file.overflow)
        THEN Panicked
        ELSE IF ~IsSome(load_config_directory_size) THEN Returned(None)
        ELSE IF ~LimbsAtLeast(Unwrap(load_config_directory_size),
                    offset_of_se_handler_count + size_of_se_handler_count)
        THEN Returned(None)
        ELSE IF ~IsSome(se_handler_count) THEN Returned(None)
        ELSE Returned(Some(LimbsAtLeast(Unwrap(se_handler_count), 1)))

\* The closure given to `find`: "yes", "no", or "panic" when the sum of the
\* section's address and size overflows in a build with overflow checks.
SectionHoldsTable(section, load_config_table, load_config_table_end, oc) ==
    IF ~HasAllBits(section.characteristics, RDATA_CHARACTERISTICS) THEN "no"
    ELSE IF ~U32Le(section.virtual_address, load_config_table.virtual_address)
    THEN "no"
    ELSE LET end == U32Add(section.virtual_address, section.virtual_size)
         IN  IF oc /\ end.overflow THEN "panic"
             ELSE IF U32Le(load_config_table_end, end.value) THEN "yes"
             ELSE "no"

RECURSIVE FindSection(_, _, _, _, _)
FindSection(sections, i, load_config_table, load_config_table_end, oc) ==
    IF i > Len(sections) THEN Returned(None)
    ELSE LET r == SectionHoldsTable(sections[i], load_config_table,
                                    load_config_table_end, oc)
         IN  IF r = "panic" THEN Panicked
             ELSE IF r = "yes" THEN Returned(Some(sections[i]))
             ELSE FindSection(sections, i + 1, load_config_table,
                              load_config_table_end, oc)

has_safe_seh_handlers(b, p, oc) ==
    IF ~IsSome(p.optional_header) THEN Returned(None)
    ELSE IF ~IsSome(Unwrap(p.optional_header).load_config_table)
    THEN Returned(None)
    ELSE LET load_config_table == Unwrap(Unwrap(p.optional_header).load_config_table)
             load_config_table_end ==
                 U32Add(load_config_table.virtual_address, load_config_table.size)
             found == FindSection(p.sections, 1, load_config_table,
                                  load_config_table_end.value, oc)
         IN  IF load_config_table.size = U32Of(0) THEN Returned(None)
             ELSE IF oc /\ load_config_table_end.overflow THEN Panicked
             ELSE IF found.panic THEN Panicked
             ELSE IF ~IsSome(found.value) THEN Returned(None)
             ELSE image_load_configuration_directory_has_safe_seh_handlers(
                      b, p, Unwrap(found.value), load_config_table, oc)

has_safe_structured_exception_handlers(b, p, oc) ==
    LET r == has_safe_seh_handlers(b, p, oc)
    IN  IF r.panic THEN Panicked
        ELSE IF r.value = Some(TRUE) THEN Returned(TRUE)
        ELSE Returned(has_pdata_section(p))

(***************************************************************************)
(* options/mod.rs: the PE options built on those checks.                   *)
(***************************************************************************)
FromOption(name, r) ==
    IF IsSome(r) THEN YesNoUnknownStatus_new(name, Unwrap(r))
    ELSE YesNoUnknownStatus_unknown(name)

PEDllCharacteristicsBitOption_check_ignoring_present(p, name, mask, present) ==
    IF IsSome(dll_characteristics_bit_is_set(p, mask))
    THEN YesNoUnknownStatus_new(name, Unwrap(dll_characteristics_bit_is_set(p, mask)))
    ELSE YesNoUnknownStatus_unknown(name)

PEDllCharacteristicsBitOption_check(p, name, mask, present) ==
    IF IsSome(dll_characteristics_bit_is_set(p, mask))
    THEN YesNoUnknownStatus_new(name,
             Unwrap(dll_characteristics_bit_is_set(p, mask)) = present)
    ELSE YesNoUnknownStatus_unknown(name)

(***************************************************************************)
(* pe::analyze_binary: the nine checks, in order.                          *)
(***************************************************************************)
PeStep(from, verdict, to) ==
    /\ pc = from
    /\ out' = Append(out, verdict)
    /\ pc' = to
    /\ UNCHANGED <<elfIn, peIn, parsers, restIn, nameIn, statusIn>>

CheckPeCheckSum ==
    PeStep("PE-CHECKSUM", FromOption("CHECKSUM", has_check_sum(pe)),
           "PE-DATA-EXEC-PREVENT")

CheckPeDataExecutionPrevention ==
    PeStep("PE-DATA-EXEC-PREVENT",
           PEDllCharacteristicsBitOption_check(pe, "DATA-EXEC-PREVENT",
               IMAGE_DLLCHARACTERISTICS_NX_COMPAT, TRUE),
           "PE-RUNS-IN-APP-CONTAINER")

CheckPeRunsOnlyInAppContainer ==
    PeStep("PE-RUNS-IN-APP-CONTAINER",
           PEDllCharacteristicsBitOption_check(pe, "RUNS-IN-APP-CONTAINER",
               IMAGE_DLLCHARACTERISTICS_APPCONTAINER, TRUE),
           "PE-CONSIDER-MANIFEST")

CheckPeEnableManifestHandling ==
    PeStep("PE-CONSIDER-MANIFEST",
           PEDllCharacteristicsBitOption_check(pe, "CONSIDER-MANIFEST",
               IMAGE_DLLCHARACTERISTICS_NO_ISOLATION, FALSE),
           "PE-VERIFY-DIGITAL-CERT")

CheckPeRequiresIntegrityCheck ==
    PeStep("PE-VERIFY-DIGITAL-CERT",
           PEDllCharacteristicsBitOption_check(pe, "VERIFY-DIGITAL-CERT",
               IMAGE_DLLCHARACTERISTICS_FORCE_INTEGRITY, TRUE),
           "PE-CONTROL-FLOW-GUARD")

CheckPeControlFlowGuard ==
    PeStep("PE-CONTROL-FLOW-GUARD",
           Level("CONTROL-FLOW-GUARD", supports_control_flow_guard(pe)),
           "PE-HANDLES-ADDR-GT-2GB")

CheckPeHandlesAddressesLargerThan2GB ==
    PeStep("PE-HANDLES-ADDR-GT-2GB",
           YesNoUnknownStatus_new("HANDLES-ADDR-GT-2GB",
               handles_addresses_larger_than_2_gigabytes(pe)),
           "PE-ASLR")

CheckPeAslr ==
    PeStep("PE-ASLR", Level("ASLR", pe_supports_aslr(pe)), "PE-SAFE-SEH")

CheckPeSafeSeh ==
    /\ pc = "PE-SAFE-SEH"
    /\ LET r == has_safe_structured_exception_handlers(bytes, pe, overflow_checks)
       IN  IF r.panic
           THEN pc' = "panic" /\ out' = out
           ELSE /\ pc' = "done"
                /\ out' = Append(out, YesNoUnknownStatus_new("SAFE-SEH", r.value))
    /\ UNCHANGED <<elfIn, peIn, parsers, restIn, nameIn, statusIn>>

NextPe ==
    \/ CheckPeCheckSum
    \/ CheckPeDataExecutionPrevention
    \/ CheckPeRunsOnlyInAppContainer
    \/ CheckPeEnableManifestHandling
    \/ CheckPeRequiresIntegrityCheck
    \/ CheckPeControlFlowGuard
    \/ CheckPeHandlesAddressesLargerThan2GB
    \/ CheckPeAslr
    \/ CheckPeSafeSeh

(***************************************************************************)
(* PE inputs: the header bits.  Every combination of the bits the checks   *)
(* read in the two header words.                                           *)
(***************************************************************************)
RECURSIVE SumOf(_)
SumOf(S) == IF S = {} THEN 0
            ELSE LET x == CHOOSE x \in S : TRUE IN x + SumOf(S \ {x})

CoffCharacteristics ==
    {SumOf(S) : S \in SUBSET {IMAGE_FILE_RELOCS_STRIPPED,
                              IMAGE_FILE_LARGE_ADDRESS_AWARE}}
DllCharacteristics ==
    {SumOf(S) : S \in SUBSET {IMAGE_DLLCHARACTERISTICS_HIGH_ENTROPY_VA,
                              IMAGE_DLLCHARACTERISTICS_DYNAMIC_BASE,
                              IMAGE_DLLCHARACTERISTICS_FORCE_INTEGRITY,
                              IMAGE_DLLCHARACTERISTICS_NX_COMPAT,
                              IMAGE_DLLCHARACTERISTICS_NO_ISOLATION,
                              IMAGE_DLLCHARACTERISTICS_APPCONTAINER,
                              IMAGE_DLLCHARACTERISTICS_GUARD_CF}}

OptionalHeader(dll_characteristics, check_sum, load_config_table) ==
    [dll_characteristics |-> dll_characteristics, check_sum |-> check_sum,
     load_config_table |-> load_config_table]

InitPeHdr ==
    /\ pe \in [is_64 : BOOLEAN,
               coff_characteristics : CoffCharacteristics,
               optional_header :
                   {None} \cup {Some(OptionalHeader(d, c, None)) :
                                   d \in DllCharacteristics, c \in {0, 1}},
               sections : {<<>>}]
    /\ bytes = NoBytes
    /\ overflow_checks = FALSE
    /\ IdleElf /\ IdleName /\ IdleStatus /\ IdleRest
    /\ pc = "PE-CHECKSUM"
    /\ out = <<>>
    /\ parsers = <<>>

SpecPeHdr == InitPeHdr /\ [][NextPe]_vars

(***************************************************************************)
(* PE inputs: sections, the load configuration directory entry and the     *)
(* bytes of the file.  The sections include one whose end is past 2^32 and *)
(* two whose raw data pointer is near 2^32; the files hold a declared size *)
(* at offset 1088 (where `.rdata` maps address 8256) and at most one       *)
(* non-zero byte after it.                                                 *)
(***************************************************************************)
MaxSections == 2

Section(name, characteristics, virtual_address, virtual_size, pointer_to_raw_data) ==
    [name |-> name, characteristics |-> characteristics,
     virtual_address |-> virtual_address, virtual_size |-> virtual_size,
     pointer_to_raw_data |-> pointer_to_raw_data]

SehSections ==
    {Section(Str(RDATA), IMAGE_SCN_CNT_INITIALIZED_DATA + IMAGE_SCN_MEM_READ,
             U32Of(8192), U32Of(4096), U32Of(1024)),
     Section(Str(PDATA), IMAGE_SCN_CNT_INITIALIZED_DATA + IMAGE_SCN_MEM_READ,
             U32Of(12288), U32Of(256), U32Of(5120)),
     Section(Str(PDATA), IMAGE_SCN_MEM_READ,
             U32Of(12288), U32Of(256), U32Of(5120)),
     Section(StrBad, IMAGE_SCN_CNT_INITIALIZED_DATA + IMAGE_SCN_MEM_READ,
             U32(65535, 61440), U32Of(8192), U32Of(1024)),
     Section(Str(RDATA), IMAGE_SCN_CNT_INITIALIZED_DATA + IMAGE_SCN_MEM_READ,
             U32(65535, 57344), U32Of(4096), U32(65535, 65520)),
     Section(Str(RDATA), IMAGE_SCN_CNT_INITIALIZED_DATA + IMAGE_SCN_MEM_READ,
             U32(65535, 57344), U32Of(4096), U32(65535, 62528))}

DataDirectory(virtual_address, size) ==
    [virtual_address |-> virtual_address, size |-> size]

LoadConfigTables ==
    {None} \cup
    {Some(DataDirectory(va, size)) :
        va \in {U32Of(8256), U32(65535, 61440), U32(65535, 57408)},
        size \in {U32Of(0), U32Of(148), U32Of(8192)}}

File(len, at, size, marked) ==
    [len |-> len,
     data |-> [i \in {at} \cup marked |-> IF i = at THEN size ELSE 1]]

SehFiles ==
    {File(len, 1088, size, marked) :
        len \in {1092, 1160, 1199, 1200},
        size \in {64, 71, 72, 111, 112},
        marked \in {{}, {1088 + 68}, {1088 + 104}, {1088 + 111}}}

InitPeSeh ==
    /\ pe \in [is_64 : BOOLEAN,
               coff_characteristics : {0},
               optional_header :
                   {None} \cup {Some(OptionalHeader(0, 0, t)) :
                                   t \in LoadConfigTables},
               sections : SeqsUpTo(SehSections, MaxSections)]
    /\ bytes \in SehFiles
    /\ overflow_checks \in BOOLEAN
    /\ IdleElf /\ IdleName /\ IdleStatus /\ IdleRest
    /\ pc = "PE-SAFE-SEH"
    /\ out = <<>>
    /\ parsers = <<>>

SpecPeSeh == InitPeSeh /\ [][CheckPeSafeSeh]_vars

(***************************************************************************)
(* archive/mod.rs.  A member is what `extract` and `Object::parse` make of *)
(* it: extraction fails, parsing fails, or the object is of some format;   *)
(* an ELF member carries its static symbol table.  Members are named by    *)
(* their position.                                                         *)
(***************************************************************************)
Ok(v) == [ok |-> TRUE, value |-> v]
Err(e) == [ok |-> FALSE, value |-> e]
Error(kind, name) == [kind |-> kind, name |-> name]

Member(extracted, object, symbols) ==
    [extracted |-> extracted, object |-> object, syms |-> symbols]

member_has_stack_protection_without_local(member_name, member) ==
    IF member.object = "ParseError"
    THEN Err(Error("Goblin", member_name))
    ELSE IF member.object = "Elf"
    THEN Ok(\E i \in 1..Len(member.syms) :
               symbol_is_named_function_or_unspecified(member.syms[i])
                   = Some(STACK_CHK_FAIL))
    ELSE Err(Error("UnexpectedBinaryFormat", member_name))

member_has_stack_protection(member_name, member) ==
    IF member.object = "ParseError"
    THEN Err(Error("Goblin", member_name))
    ELSE IF member.object = "Elf"
    THEN Ok(\E i \in 1..Len(member.syms) :
               LET name == symbol_is_named_function_or_unspecified(member.syms[i])
               IN  name = Some(STACK_CHK_FAIL) \/ name = Some(STACK_CHK_FAIL_LOCAL))
    ELSE Err(Error("UnexpectedBinaryFormat", member_name))

\* The loop of has_stack_protection from member i on: its result, and the
\* number of members it extracted.
RECURSIVE ScanMembers_skipping_unreadable(_, _)
ScanMembers_skipping_unreadable(members, i) ==
    IF i > Len(members) THEN [result |-> Ok(FALSE), examined |-> i - 1]
    ELSE IF ~members[i].extracted
    THEN ScanMembers_skipping_unreadable(members, i + 1)
    ELSE LET r == member_has_stack_protection(i, members[i])
         IN  IF ~r.ok THEN ScanMembers_skipping_unreadable(members, i + 1)
             ELSE IF r.value THEN [result |-> Ok(TRUE), examined |-> i]
             ELSE ScanMembers_skipping_unreadable(members, i + 1)

RECURSIVE ScanMembers(_, _)
ScanMembers(members, i) ==
    IF i > Len(members) THEN [result |-> Ok(FALSE), examined |-> i - 1]
    ELSE IF ~members[i].extracted
    THEN [result |-> Err(Error("Goblin1", i)), examined |-> i]
    ELSE LET r == member_has_stack_protection(i, members[i])
         IN  IF ~r.ok THEN [result |-> r, examined |-> i]
             ELSE IF r.value THEN [result |-> Ok(TRUE), examined |-> i]
             ELSE ScanMembers(members, i + 1)

archive_has_stack_protection(members) == ScanMembers(members, 1).result

\* archive::analyze_binary: ELFStackProtectionOption::check on an archive.
CheckArchiveStackProtection ==
    /\ pc = "AR-STACK-PROT"
    /\ examined' = ScanMembers(archive, 1).examined
    /\ LET r == archive_has_stack_protection(archive)
       IN  IF r.ok
           THEN /\ out' = Append(out, YesNoUnknownStatus_new("STACK-PROT", r.value))
                /\ error' = error
                /\ pc' = "done"
           ELSE /\ out' = out
                /\ error' = Some(r.value)
                /\ pc' = "error"
    /\ UNCHANGED <<elfIn, peIn, parsers, nameIn, statusIn, archive, libcIn, libcSt, mainSt>>

(***************************************************************************)
(* Archives: up to MaxMembers members, ELF members with up to MaxSyms      *)
(* symbols, and members of other kinds.                                    *)
(***************************************************************************)
MaxMembers == 2

Members ==
    {Member(TRUE, "Elf", symbols) : symbols \in SeqsUpTo(StaticSymbols, MaxSyms)}
    \cup {Member(TRUE, "PE", <<>>), Member(TRUE, "Unknown", <<>>),
          Member(TRUE, "ParseError", <<>>), Member(FALSE, "Elf", <<>>)}

InitArchive ==
    /\ archive \in SeqsUpTo(Members, MaxMembers)
    /\ examined = 0
    /\ error = None
    /\ IdleElf /\ IdlePe /\ IdleName /\ IdleStatus /\ IdleLibC /\ IdleMain
    /\ pc = "AR-STACK-PROT"
    /\ out = <<>>
    /\ parsers = <<>>

SpecArchive == InitArchive /\ [][CheckArchiveStackProtection]_vars

(***************************************************************************)
(* elf/needed_libc.rs: KNOWN_LIBC_PATTERN, \blib(c|bionic)\b[^/]+$ matched *)
(* case-insensitively anywhere in the name.                                *)
(***************************************************************************)
UpperCase == <<"A", "B", "C", "D", "E", "F", "G", "H", "I", "J", "K", "L", "M",
              "N", "O", "P", "Q", "R", "S", "T", "U", "V", "W", "X", "Y", "Z">>
LowerCase == <<"a", "b", "c", "d", "e", "f", "g", "h", "i", "j", "k", "l", "m",
              "n", "o", "p", "q", "r", "s", "t", "u", "v", "w", "x", "y", "z">>
Digits == {"0", "1", "2", "3", "4", "5", "6", "7", "8", "9"}
Letters == {UpperCase[k] : k \in 1..Len(UpperCase)}
               \cup {LowerCase[k] : k \in 1..Len(LowerCase)}
WordChars == Letters \cup Digits \cup {"_"}
ToLower(ch) ==
    IF ch \in Letters /\ \E k \in 1..Len(UpperCase) : UpperCase[k] = ch
    THEN LowerCase[CHOOSE k \in 1..Len(UpperCase) : UpperCase[k] = ch]
    ELSE ch
IsWordChar(ch) == ch \in WordChars
\* \b between positions p - 1 and p of s.
WordBoundary(s, p) ==
    (p > 1 /\ IsWordChar(s[p - 1])) # (p <= Len(s) /\ IsWordChar(s[p]))
LiteralAt(s, p, literal) ==
    /\ p + Len(literal) - 1 <= Len(s)
    /\ \A k \in 1..Len(literal) : ToLower(s[p + k - 1]) = literal[k]
LIBC == <<"l", "i", "b", "c">>
LIBBIONIC == <<"l", "i", "b", "b", "i", "o", "n", "i", "c">>
KNOWN_LIBC_PATTERN_is_match(s) ==
    \E p \in 1..Len(s) :
        /\ WordBoundary(s, p)
        /\ \E literal \in {LIBC, LIBBIONIC} :
               /\ LiteralAt(s, p, literal)
               /\ WordBoundary(s, p + Len(literal))
               /\ p + Len(literal) <= Len(s)
               /\ \A k \in (p + Len(literal))..Len(s) : s[k] # "/"

(***************************************************************************)
(* Paths are sequences of components; a file of the file system is its     *)
(* path and what BinaryParser::open makes of it.                           *)
(***************************************************************************)
ROOT == <<>>
Join(base, component) ==
    IF component = <<>> THEN base ELSE Append(base, component)
KNOWN_PREFIXES == << <<>>, <<"u", "s", "r">> >>
KNOWN_LIB_DIRS == << <<"l", "i", "b">>, <<"l", "i", "b", "6", "4">>, <<"l", "i", "b", "3", "2">> >>

LibFile(path, object, machine, symbols) ==
    [path |-> path, object |-> object, e_machine |-> machine, dynsyms |-> symbols]

dynamic_symbol_is_named_exported_function_any_binding(sym) ==
    IF sym.st_other = STV_DEFAULT
           /\ (sym.st_type = STT_FUNC \/ sym.st_type = STT_GNU_IFUNC)
           /\ sym.st_value # 0
    THEN NonEmptyName(sym.name)
    ELSE None

dynamic_symbol_is_named_exported_function(sym) ==
    IF sym.st_other = STV_DEFAULT
           /\ (sym.st_type = STT_FUNC \/ sym.st_type = STT_GNU_IFUNC)
           /\ sym.st_bind \in {STB_GLOBAL, STB_WEAK, STB_GNU_UNIQUE}
           /\ sym.st_value # 0
    THEN NonEmptyName(sym.name)
    ELSE None

get_checked_functions_elf(symbols) ==
    {from_checked_name(Unwrap(dynamic_symbol_is_named_exported_function(symbols[k]))) :
        k \in {j \in 1..Len(symbols) :
                  /\ IsSome(dynamic_symbol_is_named_exported_function(symbols[j]))
                  /\ function_is_checked_version(
                         Unwrap(dynamic_symbol_is_named_exported_function(symbols[j])))}}

NeededLibC(checked_functions) == [checked_functions |-> checked_functions]

open_elf_for_architecture(files, path, machine) ==
    IF \A f \in files : f.path # path THEN Err(Error("IO1", path))
    ELSE LET f == CHOOSE f \in files : f.path = path
         IN  IF f.object = "ParseError" THEN Err(Error("Goblin", path))
             ELSE IF f.object = "Elf"
             THEN IF f.e_machine = machine
                  THEN Ok(NeededLibC(get_checked_functions_elf(f.dynsyms)))
                  ELSE Err(Error("UnexpectedBinaryArchitecture", path))
             ELSE IF f.object = "Unknown"
             THEN Err(Error("UnsupportedBinaryFormat", path))
             ELSE Err(Error("UnexpectedBinaryFormat", path))

(***************************************************************************)
(* elf/needed_libc.rs: LibCResolver.                                       *)
(***************************************************************************)
\* LibCResolver::new: its result, and whether it called Cache::load().
LibCResolver_new(root, cache_file) ==
    IF ~IsSome(root)
    THEN [result |-> IF cache_file.loadable
                     THEN Ok([sys_root |-> ROOT, ld_so_cache |-> Some(cache_file)])
                     ELSE Err(Error("DynamicLoaderCache", ROOT)),
          loaded |-> TRUE]
    ELSE [result |-> Ok([sys_root |-> Unwrap(root), ld_so_cache |-> None]),
          loaded |-> FALSE]

\* `.map(open_elf_for_architecture).find(Result::is_ok)` over paths[k..]:
\* the first Ok if there is one, and the paths opened on the way.
FirstOpened(files, paths, k, machine) ==
    LET oks == {j \in k..Len(paths) :
                   open_elf_for_architecture(files, paths[j], machine).ok}
        first == CHOOSE j \in oks : \A i \in oks : j <= i
    IN  IF oks = {} THEN [found |-> None, opened |-> SubSeq(paths, k, Len(paths))]
        ELSE [found |-> Some(open_elf_for_architecture(files, paths[first], machine)),
              opened |-> SubSeq(paths, k, first)]

\* The full_path of the readable cache entries named file_name, in order.
RECURSIVE CachePaths(_, _, _)
CachePaths(entries, k, file_name) ==
    IF k > Len(entries) THEN <<>>
    ELSE IF entries[k].ok /\ entries[k].file_name = file_name
    THEN <<entries[k].full_path>> \o CachePaths(entries, k + 1, file_name)
    ELSE CachePaths(entries, k + 1, file_name)

WellKnownPaths_prefix_major(sys_root, file_name) ==
    [k \in 1..(Len(KNOWN_LIB_DIRS) * Len(KNOWN_PREFIXES)) |->
        Join(Join(Join(sys_root,
                       KNOWN_PREFIXES[((k - 1) \div Len(KNOWN_LIB_DIRS)) + 1]),
                  KNOWN_LIB_DIRS[((k - 1) % Len(KNOWN_LIB_DIRS)) + 1]),
             file_name)]

WellKnownPaths(sys_root, file_name) ==
    [k \in 1..(Len(KNOWN_LIB_DIRS) * Len(KNOWN_PREFIXES)) |->
        Join(Join(Join(sys_root,
                       KNOWN_PREFIXES[((k - 1) % Len(KNOWN_PREFIXES)) + 1]),
                  KNOWN_LIB_DIRS[((k - 1) \div Len(KNOWN_PREFIXES)) + 1]),
             file_name)]

open_in_known_dirs(self, files, machine, file_name) ==
    LET r == FirstOpened(files, WellKnownPaths(self.sys_root, file_name), 1, machine)
    IN  [result |-> IF IsSome(r.found) THEN Unwrap(r.found)
                    ELSE Err(Error("NotFoundNeededLibC", file_name)),
         opened |-> r.opened]

open_compatible_libc_known_dirs_first(self, files, machine, file_name) ==
    LET known == open_in_known_dirs(self, files, machine, file_name)
        cached == FirstOpened(files,
                      CachePaths(Unwrap(self.ld_so_cache).entries, 1, file_name),
                      1, machine)
    IN  IF known.result.ok \/ ~IsSome(self.ld_so_cache) THEN known
        ELSE IF ~Unwrap(self.ld_so_cache).iterable
        THEN [result |-> Err(Error("DynamicLoaderCache", file_name)),
              opened |-> known.opened]
        ELSE IF IsSome(cached.found)
        THEN [result |-> Unwrap(cached.found),
              opened |-> known.opened \o cached.opened]
        ELSE [result |-> known.result, opened |-> known.opened \o cached.opened]

open_compatible_libc(self, files, machine, file_name) ==
    LET known == open_in_known_dirs(self, files, machine, file_name)
        cached == FirstOpened(files,
                      CachePaths(Unwrap(self.ld_so_cache).entries, 1, file_name),
                      1, machine)
    IN  IF ~IsSome(self.ld_so_cache) THEN known
        ELSE IF ~Unwrap(self.ld_so_cache).iterable
        THEN [result |-> Err(Error("DynamicLoaderCache", file_name)),
              opened |-> <<>>]
        ELSE IF IsSome(cached.found)
        THEN [result |-> Unwrap(cached.found), opened |-> cached.opened]
        ELSE [result |-> known.result, opened |-> cached.opened \o known.opened]

\* find_needed_by_executable from library k on, `opened` being the paths
\* opened for the libraries before k.
RECURSIVE FindNeeded(_, _, _, _, _, _)
FindNeeded(self, files, machine, libs, k, opened) ==
    IF k > Len(libs)
    THEN [result |-> Err(Error("UnrecognizedNeededLibC", ROOT)), opened |-> opened]
    ELSE IF ~KNOWN_LIBC_PATTERN_is_match(libs[k])
    THEN FindNeeded(self, files, machine, libs, k + 1, opened)
    ELSE LET r == open_compatible_libc(self, files, machine, libs[k])
         IN  IF r.result.ok
             THEN [result |-> r.result, opened |-> opened \o r.opened]
             ELSE FindNeeded(self, files, machine, libs, k + 1, opened \o r.opened)

find_needed_by_executable(self, files, machine, libs) ==
    FindNeeded(self, files, machine, libs, 1, <<>>)

(***************************************************************************)
(* A task calls LibCResolver::get and, with the resolver it got, looks for *)
(* the libc its executable needs.  OnceLock::get_or_init runs the closure  *)
(* in one caller at a time and never again once the cell is set; callers   *)
(* arriving meanwhile wait.                                                *)
(***************************************************************************)
Task(at, resolver, result, opened) ==
    [pc |-> at, resolver |-> resolver, result |-> result, opened |-> opened]
NewTask == Task("get", None, None, <<>>)

\* What LibCResolver::get returns once get_or_init has returned `cell`.
GetReturns(first_err, cell) ==
    IF IsSome(first_err) THEN Err(Unwrap(first_err))
    ELSE IF IsSome(cell) THEN Ok(Unwrap(cell))
    ELSE Err(Error("IO1", "load linker cache"))

AfterGet(t, r) ==
    IF r.ok THEN Task("find", Some(r.value), None, <<>>)
    ELSE Task("error", None, Some(r), <<>>)

GetOrInit_not_once(t) ==
    /\ tasks[t].pc = "get"
    /\ LIBC_RESOLVER.state # "init"
    /\ LIBC_RESOLVER' = [state |-> "running", value |-> None]
    /\ tasks' = [tasks EXCEPT ![t].pc = "new"]
    /\ UNCHANGED loads

GetOrInit(t) ==
    /\ tasks[t].pc = "get"
    /\ \/ /\ LIBC_RESOLVER.state = "uninit"
          /\ LIBC_RESOLVER' = [state |-> "running", value |-> None]
          /\ tasks' = [tasks EXCEPT ![t].pc = "new"]
       \/ /\ LIBC_RESOLVER.state = "init"
          /\ LIBC_RESOLVER' = LIBC_RESOLVER
          /\ tasks' = [tasks EXCEPT
                          ![t] = AfterGet(t, GetReturns(None, LIBC_RESOLVER.value))]
    /\ UNCHANGED loads

RunNew_retrying(t) ==
    /\ tasks[t].pc = "new"
    /\ LET n == LibCResolver_new(sysroot, ld_so_cache_file)
           cell == IF n.result.ok THEN Some(n.result.value) ELSE None
           first_err == IF n.result.ok THEN None ELSE Some(n.result.value)
       IN  /\ loads' = IF n.loaded THEN loads + 1 ELSE loads
           /\ LIBC_RESOLVER' = IF n.result.ok THEN [state |-> "init", value |-> cell]
                              ELSE Uninitialized
           /\ tasks' = [tasks EXCEPT ![t] = AfterGet(t, GetReturns(first_err, cell))]

RunNew(t) ==
    /\ tasks[t].pc = "new"
    /\ LET n == LibCResolver_new(sysroot, ld_so_cache_file)
           cell == IF n.result.ok THEN Some(n.result.value) ELSE None
           first_err == IF n.result.ok THEN None ELSE Some(n.result.value)
       IN  /\ loads' = IF n.loaded THEN loads + 1 ELSE loads
           /\ LIBC_RESOLVER' = [state |-> "init", value |-> cell]
           /\ tasks' = [tasks EXCEPT ![t] = AfterGet(t, GetReturns(first_err, cell))]

FindNeededByExecutable(t) ==
    /\ tasks[t].pc = "find"
    /\ LET r == find_needed_by_executable(Unwrap(tasks[t].resolver), fs,
                                          e_machine, libraries)
       IN  tasks' = [tasks EXCEPT
                        ![t] = Task(IF r.result.ok THEN "done" ELSE "error",
                                    tasks[t].resolver, Some(r.result), r.opened)]
    /\ UNCHANGED <<LIBC_RESOLVER, loads>>

TaskStep(t) ==
    /\ \/ GetOrInit(t)
       \/ RunNew(t)
       \/ FindNeededByExecutable(t)
    /\ UNCHANGED <<elfIn, peIn, parsers, nameIn, statusIn, archive, examined, error,
                   libcIn, mainSt, pc, out>>

NextLibC == \E t \in DOMAIN tasks : TaskStep(t)

(***************************************************************************)
(* Resolution inputs: needed libraries, an optional sysroot, a dynamic     *)
(* linker cache and library files at the cache's paths, at well-known      *)
(* paths under / and at one under the sysroot.                             *)
(***************************************************************************)
MaxLibraries == 2
MaxCacheEntries == 2

LIBC_SO_6 == <<"l", "i", "b", "c", ".", "s", "o", ".", "6">>
LIBCRYPT_SO_1 == <<"l", "i", "b", "c", "r", "y", "p", "t", ".", "s", "o", ".", "1">>
LIBBIONIC_SO == <<"L", "i", "b", "B", "i", "o", "n", "i", "c", ".", "s", "o">>
LibraryNames == {LIBC_SO_6, LIBCRYPT_SO_1, LIBBIONIC_SO}

SYS == << <<"s", "y", "s">> >>
OPT == << <<"o", "p", "t">> >>
ALT == << <<"a", "l", "t">> >>

CacheEntry(ok, file_name, full_path) ==
    [ok |-> ok, file_name |-> file_name, full_path |-> full_path]
CacheEntries ==
    {CacheEntry(TRUE, LIBC_SO_6, Join(OPT, LIBC_SO_6)),
     CacheEntry(FALSE, LIBC_SO_6, Join(OPT, LIBC_SO_6)),
     CacheEntry(TRUE, LIBC_SO_6, Join(ALT, LIBC_SO_6))}
Caches ==
    {NoCache, [loadable |-> TRUE, iterable |-> FALSE, entries |-> <<>>]}
    \cup {[loadable |-> TRUE, iterable |-> TRUE, entries |-> entries] :
             entries \in SeqsUpTo(CacheEntries, MaxCacheEntries)}

Exporting(names) ==
    [k \in 1..Len(names) |-> Sym(STT_FUNC, STB_GLOBAL, STV_DEFAULT, 1, Str(names[k]))]

FileSystems ==
    {a \cup k \cup u \cup r :
        a \in {{}, {LibFile(Join(OPT, LIBC_SO_6), "Elf", 62, Exporting(<<F_CHK>>))},
               {LibFile(Join(OPT, LIBC_SO_6), "Elf", 3, Exporting(<<F_CHK>>))}},
        k \in {{}, {LibFile(WellKnownPaths(ROOT, LIBC_SO_6)[1], "Elf", 62,
                            Exporting(<<F_CHK, G_CHK>>))}},
        u \in {{}, {LibFile(WellKnownPaths(ROOT, LIBC_SO_6)[2], "PE", 0, <<>>)},
               {LibFile(WellKnownPaths(ROOT, LIBBIONIC_SO)[4], "Elf", 62,
                        Exporting(<<G_CHK>>))}},
        r \in {{}, {LibFile(WellKnownPaths(SYS, LIBC_SO_6)[2], "Elf", 62,
                            Exporting(<<MAIN>>))},
               {LibFile(WellKnownPaths(SYS, LIBC_SO_6)[1], "Elf", 3,
                        Exporting(<<G_CHK>>)),
                LibFile(WellKnownPaths(SYS, LIBC_SO_6)[2], "PE", 0, <<>>),
                LibFile(WellKnownPaths(SYS, LIBC_SO_6)[4], "Elf", 62,
                        Exporting(<<F_CHK>>))}}}

InitLibCInputs ==
    /\ sysroot \in {None, Some(SYS)}
    /\ ld_so_cache_file \in Caches
    /\ fs \in FileSystems
    /\ libraries \in SeqsUpTo(LibraryNames, MaxLibraries)
    /\ e_machine = 62
    /\ libc_spec = None
    /\ verbose = FALSE
    /\ LIBC_RESOLVER = Uninitialized
    /\ loads = 0
    /\ IdleElf /\ IdlePe /\ IdleName /\ IdleStatus /\ IdleArchive /\ IdleMain
    /\ pc = "tasks"
    /\ out = <<>>
    /\ parsers = <<>>

InitLibC == InitLibCInputs /\ tasks = <<NewTask>>

SpecLibC == InitLibC /\ [][NextLibC]_vars

(***************************************************************************)
(* NeededLibC::open_elf_for_architecture on one library file, with the     *)
(* debug log of get_checked_functions_elf: when Debug is enabled the       *)
(* function calls get_unchecked_name on every CheckedFunction it stored.   *)
(***************************************************************************)
LogCheckedFunctions(checked_functions) ==
    \E cf \in checked_functions : get_unchecked_name(cf).panic

OpenElfForArchitecture ==
    /\ pc = "open_elf_for_architecture"
    /\ LET f == CHOOSE f \in fs : TRUE
           r == open_elf_for_architecture(fs, f.path, e_machine)
       IN  IF r.ok /\ verbose /\ LogCheckedFunctions(r.value.checked_functions)
           THEN pc' = "panic" /\ libc' = libc /\ error' = error
           ELSE IF r.ok
           THEN pc' = "done" /\ libc' = r.value.checked_functions /\ error' = error
           ELSE pc' = "error" /\ libc' = libc /\ error' = Some(r.value)
    /\ UNCHANGED <<elf, peIn, parsers, nameIn, statusIn, archive, examined, libcIn, libcSt,
                   mainSt, out>>

(***************************************************************************)
(* The dynamic symbols of the library: every combination of visibility,    *)
(* type, binding and value under a checked name, and every kind of name    *)
(* on an otherwise exported function.                                      *)
(***************************************************************************)
MaxExports == 2

ExportedSymbols ==
    {Sym(t, b, o, v, Str(F_CHK)) :
        t \in {STT_FUNC, STT_GNU_IFUNC, STT_OBJECT},
        b \in {STB_LOCAL, STB_GLOBAL, STB_WEAK},
        o \in {STV_DEFAULT, STV_HIDDEN},
        v \in {0, 1}}
    \cup {Sym(STT_FUNC, STB_GLOBAL, STV_DEFAULT, 1, n) :
             n \in {StrNone, StrBad, Str(<<>>), Str(F), Str(CHK), Str(G_CHK)}}

InitNeededLibC ==
    /\ \E symbols \in SeqsUpTo(ExportedSymbols, MaxExports), object \in {"Elf", "PE"} :
          fs = {LibFile(Join(Join(ROOT, KNOWN_LIB_DIRS[1]), LIBC_SO_6), object, 62, symbols)}
    /\ e_machine = 62
    /\ verbose \in BOOLEAN
    /\ sysroot = None /\ ld_so_cache_file = NoCache /\ libraries = <<LIBC_SO_6>>
    /\ libc_spec = None
    /\ LIBC_RESOLVER = Uninitialized /\ loads = 0 /\ tasks = <<>>
    /\ elf = NoElf /\ libc = {}
    /\ IdlePe /\ IdleName /\ IdleStatus /\ IdleArchive /\ IdleMain
    /\ pc = "open_elf_for_architecture"
    /\ out = <<>>
    /\ parsers = <<>>

SpecNeededLibC == InitNeededLibC /\ [][OpenElfForArchitecture]_vars

(***************************************************************************)
(* Several tasks (rayon workers, one per input file) resolving at once.    *)
(***************************************************************************)
MaxTasks == 3

InitOnce ==
    /\ InitLibCInputs
    /\ libraries = <<LIBC_SO_6>>
    /\ Len(ld_so_cache_file.entries) <= 1
    /\ \E n \in 1..MaxTasks : tasks = [k \in 1..n |-> NewTask]

SpecOnce == InitOnce /\ [][NextLibC]_vars

(***************************************************************************)
(* cmdline.rs: LibCSpec; elf/checked_functions.rs: the LSB table;          *)
(* NeededLibC::from_spec.                                                  *)
(***************************************************************************)
LibCSpec ==
    <<"lsb1", "lsb1dot1", "lsb1dot2", "lsb1dot3", "lsb2", "lsb2dot0dot1",
      "lsb2dot1", "lsb3", "lsb3dot1", "lsb3dot2", "lsb4", "lsb4dot1", "lsb5">>

LSB_4_0_0_FUNCTIONS_WITH_CHECKED_VERSIONS ==
    << <<"c", "o", "n", "f", "s", "t", "r">>,
       <<"f", "g", "e", "t", "s">>,
       <<"f", "g", "e", "t", "s", "_", "u", "n", "l", "o", "c", "k", "e", "d">>,
       <<"f", "g", "e", "t", "w", "s">>,
       <<"f", "g", "e", "t", "w", "s", "_", "u", "n", "l", "o", "c", "k", "e", "d">>,
       <<"f", "p", "r", "i", "n", "t", "f">>,
       <<"f", "w", "p", "r", "i", "n", "t", "f">>,
       <<"g", "e", "t", "c", "w", "d">>,
       <<"g", "e", "t", "g", "r", "o", "u", "p", "s">>,
       <<"g", "e", "t", "h", "o", "s", "t", "n", "a", "m", "e">>,
       <<"g", "e", "t", "l", "o", "g", "i", "n", "_", "r">>,
       <<"m", "b", "s", "n", "r", "t", "o", "w", "c", "s">>,
       <<"m", "b", "s", "r", "t", "o", "w", "c", "s">>,
       <<"m", "b", "s", "t", "o", "w", "c", "s">>,
       <<"m", "e", "m", "c", "p", "y">>,
       <<"m", "e", "m", "m", "o", "v", "e">>,
       <<"m", "e", "m", "p", "c", "p", "y">>,
       <<"m", "e", "m", "s", "e", "t">>,
       <<"p", "r", "e", "a", "d", "6", "4">>,
       <<"p", "r", "e", "a", "d">>,
       <<"p", "r", "i", "n", "t", "f">>,
       <<"r", "e", "a", "d">>,
       <<"r", "e", "a", "d", "l", "i", "n", "k">>,
       <<"r", "e", "a", "l", "p", "a", "t", "h">>,
       <<"r", "e", "c", "v">>,
       <<"r", "e", "c", "v", "f", "r", "o", "m">>,
       <<"s", "n", "p", "r", "i", "n", "t", "f">>,
       <<"s", "p", "r", "i", "n", "t", "f">>,
       <<"s", "t", "p", "c", "p", "y">>,
       <<"s", "t", "p", "n", "c", "p", "y">>,
       <<"s", "t", "r", "c", "a", "t">>,
       <<"s", "t", "r", "c", "p", "y">>,
       <<"s", "t", "r", "n", "c", "a", "t">>,
       <<"s", "t", "r", "n", "c", "p", "y">>,
       <<"s", "w", "p", "r", "i", "n", "t", "f">>,
       <<"s", "y", "s", "l", "o", "g">>,
       <<"t", "t", "y", "n", "a", "m", "e", "_", "r">>,
       <<"v", "f", "p", "r", "i", "n", "t", "f">>,
       <<"v", "f", "w", "p", "r", "i", "n", "t", "f">>,
       <<"v", "p", "r", "i", "n", "t", "f">>,
       <<"v", "s", "n", "p", "r", "i", "n", "t", "f">>,
       <<"v", "s", "p", "r", "i", "n", "t", "f">>,
       <<"v", "s", "w", "p", "r", "i", "n", "t", "f">>,
       <<"v", "s", "y", "s", "l", "o", "g">>,
       <<"v", "w", "p", "r", "i", "n", "t", "f">>,
       <<"w", "c", "p", "c", "p", "y">>,
       <<"w", "c", "p", "n", "c", "p", "y">>,
       <<"w", "c", "r", "t", "o", "m", "b">>,
       <<"w", "c", "s", "c", "a", "t">>,
       <<"w", "c", "s", "c", "p", "y">>,
       <<"w", "c", "s", "n", "c", "a", "t">>,
       <<"w", "c", "s", "n", "c", "p", "y">>,
       <<"w", "c", "s", "n", "r", "t", "o", "m", "b", "s">>,
       <<"w", "c", "s", "r", "t", "o", "m", "b", "s">>,
       <<"w", "c", "s", "t", "o", "m", "b", "s">>,
       <<"w", "c", "t", "o", "m", "b">>,
       <<"w", "m", "e", "m", "c", "p", "y">>,
       <<"w", "m", "e", "m", "m", "o", "v", "e">>,
       <<"w", "m", "e", "m", "p", "c", "p", "y">>,
       <<"w", "m", "e", "m", "s", "e", "t">>,
       <<"w", "p", "r", "i", "n", "t", "f">> >>

get_functions_with_checked_versions_all_versions(spec) ==
    LSB_4_0_0_FUNCTIONS_WITH_CHECKED_VERSIONS

get_functions_with_checked_versions(spec) ==
    IF spec \in {"lsb4", "lsb4dot1", "lsb5"}
    THEN LSB_4_0_0_FUNCTIONS_WITH_CHECKED_VERSIONS
    ELSE <<>>

NeededLibC_from_spec(spec) ==
    NeededLibC({from_unchecked_name(get_functions_with_checked_versions(spec)[k]) :
                   k \in 1..Len(get_functions_with_checked_versions(spec))})

(***************************************************************************)
(* options/mod.rs: ELFFortifySourceOption::check.  The libc comes from the *)
(* fixed spec when one is given, and from the resolver otherwise.  When    *)
(* the resolution fails, `?` returns its error and the verdicts computed   *)
(* so far are dropped with analyze_binary's locals.                        *)
(***************************************************************************)
\* LIBC_RESOLVER after get_or_init, `n` being what Self::new would return.
get_or_init(cell, n) ==
    IF cell.state # "uninit" THEN cell
    ELSE [state |-> "init",
          value |-> IF n.result.ok THEN Some(n.result.value) ELSE None]

\* first_err after get_or_init: set only by the closure, when new failed.
first_err(cell, n) ==
    IF cell.state = "uninit" /\ ~n.result.ok THEN Some(n.result.value) ELSE None

Resolution(cell, loaded, libc_result, task) ==
    [libc |-> libc_result, cell |-> cell, loaded |-> loaded, resolutions |-> <<task>>]

Found(cell, loaded, got, found) ==
    Resolution(cell, loaded, found.result,
               Task(IF found.result.ok THEN "done" ELSE "error",
                    Some(got.value), Some(found.result), found.opened))

FindWith(cell, loaded, got, files, machine, libs) ==
    IF ~got.ok
    THEN Resolution(cell, loaded, got, Task("error", None, Some(got), <<>>))
    ELSE Found(cell, loaded, got,
               find_needed_by_executable(got.value, files, machine, libs))

ResolveWith(cell, n, files, machine, libs) ==
    FindWith(get_or_init(cell, n), cell.state = "uninit" /\ n.loaded,
             GetReturns(first_err(cell, n), get_or_init(cell, n).value),
             files, machine, libs)

\* LibCResolver::get followed by find_needed_by_executable, for one caller
\* arriving at the cell `cell`.
ResolveNeededLibC(cell, root, cache_file, files, machine, libs) ==
    ResolveWith(cell, LibCResolver_new(root, cache_file), files, machine, libs)

\* The libc the check works with, or the error that ends it, and what the
\* resolver did on the way.
ELFFortifySourceOption_libc_never_failing(spec, cell, root, cache_file, files, machine, libs) ==
    IF IsSome(spec)
    THEN [libc |-> Ok(NeededLibC_from_spec(Unwrap(spec))),
          cell |-> cell, loaded |-> FALSE, resolutions |-> <<>>]
    ELSE LET r == ResolveNeededLibC(cell, root, cache_file, files, machine, libs)
         IN  [r EXCEPT !.libc = IF @.ok THEN @ ELSE Ok(NeededLibC({}))]

ELFFortifySourceOption_libc(spec, cell, root, cache_file, files, machine, libs) ==
    IF IsSome(spec)
    THEN [libc |-> Ok(NeededLibC_from_spec(Unwrap(spec))),
          cell |-> cell, loaded |-> FALSE, resolutions |-> <<>>]
    ELSE ResolveNeededLibC(cell, root, cache_file, files, machine, libs)

FortifySourceVerdict(r) ==
    IF r.panic THEN pc' = "panic" /\ out' = out
    ELSE /\ pc' = "done"
         /\ out' = Append(out, ELFFortifySourceStatus_new(r.protected, r.unprotected))

ELFFortifySourceOption_check(l) ==
    /\ LIBC_RESOLVER' = l.cell
    /\ loads' = IF l.loaded THEN loads + 1 ELSE loads
    /\ tasks' = tasks \o l.resolutions
    /\ IF ~l.libc.ok
       THEN /\ pc' = "error"
            /\ error' = Some(l.libc.value)
            /\ out' = <<>>
            /\ libc' = libc
       ELSE /\ libc' = l.libc.value.checked_functions
            /\ error' = error
            /\ FortifySourceVerdict(
                   get_libc_functions_by_protection(elf, l.libc.value.checked_functions))

CheckElfFortifySourceOption ==
    /\ pc = "FORTIFY-SOURCE"
    /\ ELFFortifySourceOption_check(
           ELFFortifySourceOption_libc(libc_spec, LIBC_RESOLVER, sysroot,
               ld_so_cache_file, fs, e_machine, libraries))
    /\ UNCHANGED <<elf, peIn, parsers, nameIn, statusIn, archive, examined, libcIn, mainSt>>

(***************************************************************************)
(* ELF inputs importing functions of the LSB table, checked with and       *)
(* without a fixed spec.                                                   *)
(***************************************************************************)
MaxImports == 2

MEMCPY == <<"m", "e", "m", "c", "p", "y">>
MEMCPY_CHK == <<"_", "_", "m", "e", "m", "c", "p", "y", "_", "c", "h", "k">>

ImportedSymbols ==
    {Sym(STT_FUNC, STB_GLOBAL, STV_DEFAULT, 0, Str(MEMCPY)),
     Sym(STT_FUNC, STB_GLOBAL, STV_DEFAULT, 0, Str(MEMCPY_CHK)),
     Sym(STT_FUNC, STB_GLOBAL, STV_DEFAULT, 0, Str(F)),
     Sym(STT_FUNC, STB_GLOBAL, STV_DEFAULT, 0, Str(F_CHK)),
     Sym(STT_FUNC, STB_GLOBAL, STV_DEFAULT, 0, Str(CHK)),
     Sym(STT_FUNC, STB_GLOBAL, STV_DEFAULT, 1, Str(MEMCPY))}

InitFortifyOption ==
    /\ elf \in [e_type : {ET_DYN},
                program_headers : {<<PT_LOAD>>},
                dynamic : {None},
                syms : {<<>>},
                dynsyms : SeqsUpTo(ImportedSymbols, MaxImports)]
    /\ libc = {}
    /\ libc_spec \in {None} \cup {Some(LibCSpec[k]) : k \in 1..Len(LibCSpec)}
    /\ verbose = FALSE
    /\ sysroot = None
    /\ ld_so_cache_file \in {NoCache,
                             [loadable |-> TRUE, iterable |-> TRUE, entries |-> <<>>]}
    /\ fs \in {{}, {LibFile(WellKnownPaths(ROOT, LIBC_SO_6)[1], "Elf", 62,
                            Exporting(<<F_CHK, MEMCPY_CHK>>))}}
    /\ libraries \in {<<>>, <<LIBC_SO_6>>}
    /\ e_machine = 62
    /\ LIBC_RESOLVER = Uninitialized /\ loads = 0 /\ tasks = <<>>
    /\ IdlePe /\ IdleName /\ IdleStatus /\ IdleArchive /\ IdleMain
    /\ pc = "FORTIFY-SOURCE"
    /\ out = <<>>
    /\ parsers = <<>>

SpecFortifyOption == InitFortifyOption /\ [][CheckElfFortifySourceOption]_vars

(***************************************************************************)
(* The three analyze_binary functions, each on inputs of its own format.   *)
(* The ELF one ends with the whole fortify check, libc resolution          *)
(* included.                                                               *)
(***************************************************************************)
InitAnalyzeElf ==
    /\ elf \in [e_type : {ET_EXEC, ET_DYN},
                program_headers : {<<>>, <<PT_GNU_RELRO>>},
                dynamic : {None},
                syms : {<<>>},
                dynsyms : SeqsUpTo({Sym(STT_FUNC, STB_GLOBAL, STV_DEFAULT, 0, Str(MEMCPY)),
                                    Sym(STT_FUNC, STB_GLOBAL, STV_DEFAULT, 0, Str(CHK))},
                                   1)]
    /\ libc = {}
    /\ libc_spec \in {None, Some("lsb3"), Some("lsb5")}
    /\ verbose = FALSE
    /\ sysroot = None
    /\ ld_so_cache_file \in {NoCache,
                             [loadable |-> TRUE, iterable |-> TRUE, entries |-> <<>>]}
    /\ fs \in {{}, {LibFile(WellKnownPaths(ROOT, LIBC_SO_6)[1], "Elf", 62,
                            Exporting(<<CHK, MEMCPY_CHK>>))}}
    /\ libraries \in {<<>>, <<LIBC_SO_6>>}
    /\ e_machine = 62
    /\ LIBC_RESOLVER = Uninitialized /\ loads = 0 /\ tasks = <<>>
    /\ IdlePe /\ IdleName /\ IdleStatus /\ IdleArchive /\ IdleMain
    /\ pc = "ASLR"
    /\ out = <<>>
    /\ parsers = <<>>

InitAnalyze == InitAnalyzeElf \/ InitPeHdr \/ InitArchive

NextAnalyze ==
    \/ CheckElfAslr
    \/ CheckElfStackProtection
    \/ CheckElfReadOnlyAfterRelocations
    \/ CheckElfImmediateBinding
    \/ CheckElfFortifySourceOption
    \/ NextPe
    \/ CheckArchiveStackProtection

SpecAnalyze == InitAnalyze /\ [][NextAnalyze]_vars

(***************************************************************************)
(* main.rs: process_file, run and main.  An input file is what             *)
(* BinaryParser::open makes of its path; a path is the file's position in  *)
(* options.input_files.                                                    *)
(***************************************************************************)
InputFile(object, libs, dynsyms, members) ==
    [object |-> object, libraries |-> libs, dynsyms |-> dynsyms, members |-> members]

Outcome(result, panic, l) ==
    [result |-> result, panic |-> panic,
     cell |-> l.cell, loaded |-> l.loaded, resolutions |-> l.resolutions]

NoResolution(cell) ==
    [libc |-> Ok(NeededLibC({})), cell |-> cell, loaded |-> FALSE, resolutions |-> <<>>]

\* elf::analyze_binary and the display of its verdicts, given the libc
\* resolution `l` of the fortify check.
ProcessElf(file, l) ==
    IF ~l.libc.ok THEN Outcome(l.libc, FALSE, l)
    ELSE Outcome(Ok("ELF"),
                 ScanImports(file.dynsyms, Len(file.dynsyms),
                             l.libc.value.checked_functions).panic,
                 l)

\* The end of process_file: the verdicts go to the color buffer, separated
\* by spaces and ended by a new line, once the analysis has returned them.
\* The buffer is a termcolor::Buffer, in memory: writing to it cannot fail.
display_results(result) ==
    IF result.ok THEN <<result.value, "\n">> ELSE <<>>

FromAnalysis(r, cell) ==
    Outcome(IF r.ok THEN Ok("Archive") ELSE r, FALSE, NoResolution(cell))

process_file_mach_as_unknown(path, file, spec, cell, root, cache_file, files, machine) ==
    IF file.object = "Unreadable"
    THEN Outcome(Err(Error("IO1", path)), FALSE, NoResolution(cell))
    ELSE IF file.object = "ParseError"
    THEN Outcome(Err(Error("Goblin", path)), FALSE, NoResolution(cell))
    ELSE IF file.object = "Elf"
    THEN ProcessElf(file, ELFFortifySourceOption_libc(spec, cell, root, cache_file,
                              files, machine, file.libraries))
    ELSE IF file.object = "PE"
    THEN Outcome(Ok("PE"), FALSE, NoResolution(cell))
    ELSE IF file.object = "Archive"
    THEN FromAnalysis(archive_has_stack_protection(file.members), cell)
    ELSE Outcome(Err(Error("UnknownBinaryFormat", path)), FALSE, NoResolution(cell))

process_file(path, file, spec, cell, root, cache_file, files, machine) ==
    IF file.object = "Unreadable"
    THEN Outcome(Err(Error("IO1", path)), FALSE, NoResolution(cell))
    ELSE IF file.object = "ParseError"
    THEN Outcome(Err(Error("Goblin", path)), FALSE, NoResolution(cell))
    ELSE IF file.object = "Elf"
    THEN ProcessElf(file, ELFFortifySourceOption_libc(spec, cell, root, cache_file,
                              files, machine, file.libraries))
    ELSE IF file.object = "PE"
    THEN Outcome(Ok("PE"), FALSE, NoResolution(cell))
    ELSE IF file.object = "Mach"
    THEN Outcome(Err(Error("UnsupportedBinaryFormat", path)), FALSE, NoResolution(cell))
    ELSE IF file.object = "Archive"
    THEN FromAnalysis(archive_has_stack_protection(file.members), cell)
    ELSE Outcome(Err(Error("UnknownBinaryFormat", path)), FALSE, NoResolution(cell))

\* One rayon worker runs process_file on one input not yet processed.
Processed(path, o) ==
    /\ LIBC_RESOLVER' = o.cell
    /\ loads' = IF o.loaded THEN loads + 1 ELSE loads
    /\ tasks' = tasks \o o.resolutions
    /\ IF o.panic
       THEN pc' = "panic" /\ results' = results /\ color_buffers' = color_buffers
       ELSE /\ pc' = pc
            /\ results' = [results EXCEPT ![path] = Some(o.result)]
            /\ color_buffers' = [color_buffers EXCEPT ![path] = display_results(o.result)]

ProcessFile(path) ==
    /\ pc = "run"
    /\ ~IsSome(results[path])
    /\ Processed(path, process_file(path, input_files[path], libc_spec, LIBC_RESOLVER,
                                    sysroot, ld_so_cache_file, fs, e_machine))
    /\ UNCHANGED <<elfIn, peIn, parsers, nameIn, statusIn, archive, examined, error, libcIn,
                   input_files, successes, errors, exit_code, stdout, logged, out>>

\* partition_map over the results, each with its path, in input order.
partition_map_keeping_all(rs) ==
    [successes |-> SelectSeq(rs, LAMBDA x : x.result.ok), errors |-> rs]

partition_map(rs) ==
    [successes |-> SelectSeq(rs, LAMBDA x : x.result.ok),
     errors |-> SelectSeq(rs, LAMBDA x : ~x.result.ok)]

\* run returns once every worker has: main takes the two lists.
RunReturns ==
    /\ pc = "run"
    /\ \A path \in DOMAIN results : IsSome(results[path])
    /\ LET r == partition_map([path \in DOMAIN results |->
                                   [path |-> path, result |-> Unwrap(results[path])]])
       IN  successes' = r.successes /\ errors' = r.errors
    /\ pc' = "print"
    /\ UNCHANGED <<elfIn, peIn, parsers, nameIn, statusIn, archive, examined, error, libcIn,
                   libcSt, input_files, results, color_buffers, exit_code, stdout, logged,
                   out>>

\* One turn of main's loop over successes.  `print!` panics when standard
\* output cannot be written; color_buffer.print() returns the failure.
PrintSuccess_last_first ==
    /\ pc = "print"
    /\ Len(stdout) < Len(successes)
    /\ \E written \in {"yes", "print! panics", "print() fails"} :
          /\ stdout' = IF written = "yes"
                       THEN Append(stdout, successes[Len(successes) - Len(stdout)].path)
                       ELSE stdout
          /\ exit_code' = IF written = "print() fails" THEN 1 ELSE exit_code
          /\ pc' = IF written = "yes" THEN "print"
                   ELSE IF written = "print! panics" THEN "panic"
                   ELSE "errors"
    /\ UNCHANGED <<elfIn, peIn, parsers, nameIn, statusIn, archive, examined, error, libcIn,
                   libcSt, input_files, results, color_buffers, successes, errors, logged,
                   out>>

PrintSuccess ==
    /\ pc = "print"
    /\ Len(stdout) < Len(successes)
    /\ \E written \in {"yes", "print! panics", "print() fails"} :
          /\ stdout' = IF written = "yes"
                       THEN Append(stdout, successes[Len(stdout) + 1].path)
                       ELSE stdout
          /\ exit_code' = IF written = "print() fails" THEN 1 ELSE exit_code
          /\ pc' = IF written = "yes" THEN "print"
                   ELSE IF written = "print! panics" THEN "panic"
                   ELSE "errors"
    /\ UNCHANGED <<elfIn, peIn, parsers, nameIn, statusIn, archive, examined, error, libcIn,
                   libcSt, input_files, results, color_buffers, successes, errors, logged,
                   out>>

PrintedAll ==
    /\ pc = "print"
    /\ Len(stdout) = Len(successes)
    /\ pc' = "errors"
    /\ UNCHANGED <<elfIn, peIn, parsers, nameIn, statusIn, archive, examined, error, libcIn,
                   libcSt, mainSt, out>>

\* `if exit_code == 0 { for (path, error) in errors { .. } }`, then exit.
DisplayErrors ==
    /\ pc = "errors"
    /\ IF exit_code = 0
       THEN /\ logged' = [k \in 1..Len(errors) |-> errors[k].path]
            /\ exit_code' = IF errors = <<>> THEN 0 ELSE 1
       ELSE UNCHANGED <<logged, exit_code>>
    /\ pc' = "exit"
    /\ UNCHANGED <<elfIn, peIn, parsers, nameIn, statusIn, archive, examined, error, libcIn,
                   libcSt, input_files, results, color_buffers, successes, errors, stdout,
                   out>>

NextMain ==
    \/ \E path \in DOMAIN input_files : ProcessFile(path)
    \/ RunReturns
    \/ PrintSuccess
    \/ PrintedAll
    \/ DisplayErrors

(***************************************************************************)
(* Batches of up to MaxFiles inputs of every kind process_file tells       *)
(* apart, with and without a loadable linker cache and a libc to find.     *)
(***************************************************************************)
MaxFiles == 3

InputFiles ==
    {InputFile("PE", <<>>, <<>>, <<>>),
     InputFile("Unknown", <<>>, <<>>, <<>>),
     InputFile("Unreadable", <<>>, <<>>, <<>>),
     InputFile("ParseError", <<>>, <<>>, <<>>),
     InputFile("Mach", <<>>, <<>>, <<>>),
     InputFile("Elf", <<LIBC_SO_6>>, <<>>, <<>>),
     InputFile("Elf", <<LIBC_SO_6>>,
               <<Sym(STT_FUNC, STB_GLOBAL, STV_DEFAULT, 0, Str(CHK))>>, <<>>),
     InputFile("Archive", <<>>, <<>>,
               <<Member(TRUE, "Elf", <<>>), Member(TRUE, "PE", <<>>)>>)}

InitMain ==
    /\ input_files \in SeqsUpTo(InputFiles, MaxFiles)
    /\ results = [path \in DOMAIN input_files |-> None]
    /\ color_buffers = [path \in DOMAIN input_files |-> <<>>]
    /\ successes = <<>> /\ errors = <<>>
    /\ exit_code = 0 /\ stdout = <<>> /\ logged = <<>>
    /\ libc_spec = None
    /\ verbose = FALSE
    /\ sysroot = None
    /\ ld_so_cache_file \in {NoCache,
                             [loadable |-> TRUE, iterable |-> TRUE, entries |-> <<>>]}
    /\ fs \in {{}, {LibFile(WellKnownPaths(ROOT, LIBC_SO_6)[1], "Elf", 62,
                            Exporting(<<CHK, MEMCPY_CHK>>))}}
    /\ libraries = <<>>
    /\ e_machine = 62
    /\ LIBC_RESOLVER = Uninitialized /\ loads = 0 /\ tasks = <<>>
    /\ IdleElf /\ IdlePe /\ IdleName /\ IdleStatus /\ IdleArchive
    /\ pc = "run"
    /\ out = <<>>
    /\ parsers = <<>>

SpecMain == InitMain /\ [][NextMain]_vars

(***************************************************************************)
(* parser.rs: BinaryParser.  `bytes` is the Mmap, `object` the             *)
(* goblin::Object that borrows from it.  open maps the file, pins the      *)
(* parser with object None, parses and stores Some(object); Drop::drop     *)
(* calls drop_pinned, which stores None, and then the fields are dropped   *)
(* in declaration order, bytes before object.                              *)
(***************************************************************************)
ParserFile(readable, mappable, object, content) ==
    [readable |-> readable, mappable |-> mappable, object |-> object,
     content |-> content]

Parser(at, file, mapped, object, exposed, returned, last) ==
    [pc |-> at, file |-> file, bytes |-> mapped, object |-> object,
     exposed |-> exposed, returned |-> returned, last |-> last]

\* goblin::Object::parse(bytes_ref): the object borrows the mapped bytes.
Object_parse(mapped) == [borrows |-> mapped]

\* BinaryParser::open is called on a path.
BinaryParser_open(file) ==
    /\ parsers' = Append(parsers, Parser("File::open", file, None, None, FALSE, None, None))

\* fs::File::open(&path).map_err(..)?
File_open(i) ==
    /\ parsers[i].pc = "File::open"
    /\ parsers' = [parsers EXCEPT ![i] =
           IF parsers[i].file.readable
           THEN [@ EXCEPT !.pc = "MmapOptions::map"]
           ELSE [@ EXCEPT !.pc = "failed",
                          !.returned = Some(Err(Error("IO1", "std::fs::File::open")))]]

\* MmapOptions::new().map(&file).map_err(..)?, then Box::pin(Self { bytes,
\* object: None, .. }).
MmapOptions_map(i) ==
    /\ parsers[i].pc = "MmapOptions::map"
    /\ parsers' = [parsers EXCEPT ![i] =
           IF parsers[i].file.mappable
           THEN [@ EXCEPT !.pc = "Object::parse",
                          !.bytes = Some(parsers[i].file.content)]
           ELSE [@ EXCEPT !.pc = "failed",
                          !.returned = Some(Err(Error("IO1", "memmap::MmapOptions::map")))]]

\* goblin::Object::parse(bytes_ref).map_err(..)?, set_object(Some(object))
\* and Ok(result); on a parse error `?` drops the pinned parser.
Parse(i) ==
    /\ parsers[i].pc = "Object::parse"
    /\ parsers' = [parsers EXCEPT ![i] =
           IF parsers[i].file.object # "ParseError"
           THEN [@ EXCEPT !.pc = "open",
                          !.object = Some(Object_parse(Unwrap(parsers[i].bytes))),
                          !.exposed = TRUE,
                          !.returned = Some(Ok("parser"))]
           ELSE [@ EXCEPT !.pc = "drop",
                          !.returned = Some(Err(Error("Goblin", "goblin::Object::parse")))]]

\* self.object.as_ref().unwrap()
BinaryParser_object(i) ==
    /\ parsers[i].exposed
    /\ parsers' = [parsers EXCEPT ![i].last =
           IF IsSome(parsers[i].object) THEN Some("object") ELSE Some("panic")]

\* &self.bytes
BinaryParser_bytes(i) ==
    /\ parsers[i].exposed
    /\ parsers' = [parsers EXCEPT ![i].last = Some("bytes")]

\* The owner lets go of the Pin<Box<BinaryParser>>: Drop::drop starts.
Drop_drop(i) ==
    /\ parsers[i].pc = "open"
    /\ parsers' = [parsers EXCEPT ![i].pc = "drop", ![i].exposed = FALSE]

\* drop_pinned: self.set_object(None).
drop_pinned_keeping_object(i) ==
    /\ parsers[i].pc = "drop"
    /\ parsers' = [parsers EXCEPT ![i].pc = "drop bytes"]

drop_pinned(i) ==
    /\ parsers[i].pc = "drop"
    /\ parsers' = [parsers EXCEPT ![i].pc = "drop bytes", ![i].object = None]

\* The drop glue, field by field in declaration order: bytes (the mapping
\* is released), then object.
DropBytes(i) ==
    /\ parsers[i].pc = "drop bytes"
    /\ parsers' = [parsers EXCEPT ![i].pc = "drop object", ![i].bytes = None]

DropObject(i) ==
    /\ parsers[i].pc = "drop object"
    /\ parsers' = [parsers EXCEPT ![i].pc = "dropped", ![i].object = None]

MaxParsers == 2

ParserFiles ==
    {ParserFile(FALSE, FALSE, "ParseError", 0),
     ParserFile(TRUE, FALSE, "ParseError", 0),
     ParserFile(TRUE, TRUE, "ParseError", 1),
     ParserFile(TRUE, TRUE, "Elf", 2),
     ParserFile(TRUE, TRUE, "PE", 3)}

NextParser ==
    /\ \/ \E file \in ParserFiles : Len(parsers) < MaxParsers /\ BinaryParser_open(file)
       \/ \E i \in DOMAIN parsers : File_open(i)
       \/ \E i \in DOMAIN parsers : MmapOptions_map(i)
       \/ \E i \in DOMAIN parsers : Parse(i)
       \/ \E i \in DOMAIN parsers : BinaryParser_object(i)
       \/ \E i \in DOMAIN parsers : BinaryParser_bytes(i)
       \/ \E i \in DOMAIN parsers : Drop_drop(i)
       \/ \E i \in DOMAIN parsers : drop_pinned(i)
       \/ \E i \in DOMAIN parsers : DropBytes(i)
       \/ \E i \in DOMAIN parsers : DropObject(i)
    /\ UNCHANGED <<elfIn, peIn, nameIn, statusIn, restIn, pc, out>>

InitParser ==
    /\ parsers = <<>>
    /\ IdleElf /\ IdlePe /\ IdleName /\ IdleStatus /\ IdleRest
    /\ pc = "parsers"
    /\ out = <<>>

SpecParser == InitParser /\ [][NextParser]_vars

(***************************************************************************)
(* C1. For every ELF input the ASLR verdict is Unsupported when e_type is  *)
(* ET_EXEC, Supported when it is ET_DYN, whatever the program headers and  *)
(* the dynamic section hold (PT_PHDR, DF_1_PIE in DT_FLAGS_1), and Unknown *)
(* for every other e_type.                                                 *)
(***************************************************************************)
C1_ElfAslrFollowsType ==
    Produced("ASLR") =>
        out[VerdictOf("ASLR")].status =
            (IF elf.e_type = 2 THEN "Unsupported"
             ELSE IF elf.e_type = 3 THEN "Supported"
             ELSE "Unknown")

\* A shared object with a dynamic section, without PT_PHDR and without
\* DF_1_PIE, has been given the verdict Supported.
C1_Witness ==
    /\ Produced("ASLR")
    /\ elf.e_type = ET_DYN
    /\ \A i \in 1..Len(elf.program_headers) : elf.program_headers[i] # PT_PHDR
    /\ IsSome(elf.dynamic)
    /\ Len(Unwrap(elf.dynamic)) > 0
    /\ \A i \in 1..Len(Unwrap(elf.dynamic)) :
           ~BitIsSet(Unwrap(elf.dynamic)[i].d_val, DF_1_PIE)
    /\ out[VerdictOf("ASLR")].status = "Supported"

(***************************************************************************)
(* C3. For every ELF input the read-only-after-relocations verdict is yes  *)
(* iff at least one program header has p_type PT_GNU_RELRO; it is no for   *)
(* an ELF without program headers.                                         *)
(***************************************************************************)
C3_ElfRelroIffHeader ==
    Produced("READ-ONLY-RELOC") =>
        /\ out[VerdictOf("READ-ONLY-RELOC")].status \in {"yes", "no"}
        /\ out[VerdictOf("READ-ONLY-RELOC")].status = "yes"
               <=> \E i \in 1..Len(elf.program_headers) :
                       elf.program_headers[i] = PT_GNU_RELRO
        /\ elf.program_headers = <<>>
               => out[VerdictOf("READ-ONLY-RELOC")].status = "no"

\* PT_GNU_RELRO after another program header has given the verdict yes.
C3_Witness ==
    /\ Produced("READ-ONLY-RELOC")
    /\ Len(elf.program_headers) = 2
    /\ elf.program_headers[1] = PT_LOAD
    /\ elf.program_headers[2] = PT_GNU_RELRO
    /\ out[VerdictOf("READ-ONLY-RELOC")].status = "yes"

(***************************************************************************)
(* C4. For every ELF input the immediate-binding verdict is yes iff the    *)
(* dynamic section exists and holds a DT_BIND_NOW entry, a DT_FLAGS entry  *)
(* with DF_BIND_NOW, or a DT_FLAGS_1 entry with DF_1_NOW; without a        *)
(* dynamic section it is no.                                               *)
(***************************************************************************)
C4_EntryBindsNow(d) ==
    \/ d.d_tag = DT_BIND_NOW
    \/ d.d_tag = DT_FLAGS /\ (d.d_val \div DF_BIND_NOW) % 2 = 1
    \/ d.d_tag = DT_FLAGS_1 /\ (d.d_val \div DF_1_NOW) % 2 = 1

C4_ElfImmediateBindingIffTag ==
    Produced("IMMEDIATE-BIND") =>
        /\ out[VerdictOf("IMMEDIATE-BIND")].status \in {"yes", "no"}
        /\ out[VerdictOf("IMMEDIATE-BIND")].status = "yes"
               <=> /\ IsSome(elf.dynamic)
                   /\ \E i \in 1..Len(Unwrap(elf.dynamic)) :
                          C4_EntryBindsNow(Unwrap(elf.dynamic)[i])
        /\ elf.dynamic = None => out[VerdictOf("IMMEDIATE-BIND")].status = "no"

\* The only entry of the dynamic section is DT_FLAGS_1 with DF_1_NOW, and
\* the verdict is yes.
C4_Witness ==
    /\ Produced("IMMEDIATE-BIND")
    /\ elf.dynamic = Some(<<Dyn(DT_FLAGS_1, DF_1_NOW)>>)
    /\ out[VerdictOf("IMMEDIATE-BIND")].status = "yes"

(***************************************************************************)
(* C2, as stated. For every ELF input the stack-protection verdict is yes  *)
(* iff the (non-dynamic) symbol table holds a named symbol of type         *)
(* function, indirect-function or no-type called __stack_chk_fail or       *)
(* __stack_chk_fail_local; otherwise no; never unknown.                    *)
(***************************************************************************)
C2_StaticTableHasStackCheck ==
    \E i \in 1..Len(elf.syms) :
        /\ elf.syms[i].st_type \in {STT_FUNC, STT_GNU_IFUNC, STT_NOTYPE}
        /\ elf.syms[i].name.kind = "str"
        /\ elf.syms[i].name.s \in {STACK_CHK_FAIL, STACK_CHK_FAIL_LOCAL}

C2_ElfStackProtectionFromSymbolTable ==
    Produced("STACK-PROT") =>
        /\ out[VerdictOf("STACK-PROT")].status \in {"yes", "no"}
        /\ out[VerdictOf("STACK-PROT")].status = "yes"
               <=> C2_StaticTableHasStackCheck

(***************************************************************************)
(* C2, amended. For every ELF input the stack-protection verdict is yes    *)
(* iff the dynamic symbol table holds a named symbol of type function or   *)
(* indirect-function called exactly __stack_chk_fail; otherwise no; never  *)
(* unknown.                                                                *)
(***************************************************************************)
C2_DynamicTableHasStackCheck ==
    \E i \in 1..Len(elf.dynsyms) :
        /\ elf.dynsyms[i].st_type \in {STT_FUNC, STT_GNU_IFUNC}
        /\ elf.dynsyms[i].name.kind = "str"
        /\ elf.dynsyms[i].name.s = STACK_CHK_FAIL

C2_ElfStackProtectionFromDynamicSymbols ==
    Produced("STACK-PROT") =>
        /\ out[VerdictOf("STACK-PROT")].status \in {"yes", "no"}
        /\ out[VerdictOf("STACK-PROT")].status = "yes"
               <=> C2_DynamicTableHasStackCheck

\* The symbol table names __stack_chk_fail as a function, the dynamic symbol
\* table names it only as a no-type symbol, and the verdict is no.
C2_Witness ==
    /\ Produced("STACK-PROT")
    /\ C2_StaticTableHasStackCheck
    /\ \E i \in 1..Len(elf.dynsyms) :
           /\ elf.dynsyms[i].st_type = STT_NOTYPE
           /\ elf.dynsyms[i].name = Str(STACK_CHK_FAIL)
    /\ out[VerdictOf("STACK-PROT")].status = "no"

(***************************************************************************)
(* C7. get_libc_functions_by_protection classifies every imported dynamic  *)
(* function symbol (function or indirect-function, binding global, weak or *)
(* unique, value 0, non-empty decodable name): a checked-variant name the  *)
(* libc exports adds its unchecked name to the protected set; an unchecked *)
(* name whose checked counterpart the libc exports is added to the         *)
(* unprotected set; a checked-variant name the libc does not export        *)
(* changes neither set and is no error; no other symbol changes a set.     *)
(***************************************************************************)
C7_ImportedNames ==
    {elf.dynsyms[i].name.s : i \in
        {j \in 1..Len(elf.dynsyms) :
            /\ elf.dynsyms[j].st_type \in {STT_FUNC, STT_GNU_IFUNC}
            /\ elf.dynsyms[j].st_bind \in {STB_GLOBAL, STB_WEAK, STB_GNU_UNIQUE}
            /\ elf.dynsyms[j].st_value = 0
            /\ elf.dynsyms[j].name.kind = "str"
            /\ elf.dynsyms[j].name.s # <<>>}}

C7_IsCheckedName(n) ==
    /\ Len(n) >= 4
    /\ SubSeq(n, 1, 2) = <<"_", "_">>
    /\ SubSeq(n, Len(n) - 3, Len(n)) = <<"_", "c", "h", "k">>

C7_Exported(n) == [checked_name |-> n] \in libc

C7_FortifyClassification ==
    pc \in {"done", "panic"} =>
        /\ pc = "done"
        /\ out[VerdictOf("FORTIFY-SOURCE")].protected =
               {SubSeq(n, 3, Len(n) - 4) :
                   n \in {m \in C7_ImportedNames :
                             C7_IsCheckedName(m) /\ C7_Exported(m)}}
        /\ out[VerdictOf("FORTIFY-SOURCE")].unprotected =
               {n \in C7_ImportedNames :
                   /\ ~C7_IsCheckedName(n)
                   /\ C7_Exported(<<"_", "_">> \o n \o <<"_", "c", "h", "k">>)}

(***************************************************************************)
(* C5. CheckedFunction round trip: for every unchecked name u,             *)
(* from_unchecked_name(u).get_unchecked_name() is u, and so is             *)
(* from_checked_name("__" + u + "_chk").get_unchecked_name(); the two      *)
(* constructions are the same value; hence                                 *)
(* exports_checked_version_of_function(u) is Some iff                      *)
(* exports_function("__" + u + "_chk") is Some.                            *)
(***************************************************************************)
C5_CheckedFunctionRoundTrip ==
    /\ Len(checked) >= 2 =>
           ~checked[2].panic /\ checked[2].name = query
    /\ Len(checked) >= 3 => checked[1] = checked[3]
    /\ Len(checked) >= 4 =>
           ~checked[4].panic /\ checked[4].name = query
    /\ Len(checked) >= 6 =>
           /\ ~checked[5].panic /\ ~checked[6].panic
           /\ IsSome(checked[5].name) <=> IsSome(checked[6].name)
           /\ IsSome(checked[5].name) <=>
                  [checked_name |-> <<"_", "_">> \o query \o <<"_", "c", "h", "k">>]
                      \in libc

\* Both lookups of a one-character name have answered Some of that name,
\* from a library that also exports __chk.
C5_Witness ==
    /\ pc = "done"
    /\ query = F
    /\ from_checked_name(CHK) \in libc
    /\ checked[5].name = Some(F)
    /\ checked[6].name = Some(F)
    /\ checked[2].name = F

(***************************************************************************)
(* C6. The fortify-source verdict is a total function of the emptiness of  *)
(* the two name sets: both empty is unknown ('?'); only unprotected names  *)
(* is bad ('!'); only protected names is good ('+'); both non-empty is     *)
(* maybe ('~'). Exactly one of the four is produced for every pair.        *)
(***************************************************************************)
C6_FortifyTruthTable ==
    pc = "done" /\ buffer # <<>> =>
        LET p == status.protected_functions # {}
            u == status.unprotected_functions # {}
            marker == buffer[1].text[1]
        IN  /\ marker \in {"?", "!", "+", "~"}
            /\ (~p /\ ~u) <=> marker = "?"
            /\ (~p /\ u) <=> marker = "!"
            /\ (p /\ ~u) <=> marker = "+"
            /\ (p /\ u) <=> marker = "~"

\* A status with protected and unprotected names has been displayed as '~'.
C6_Witness ==
    /\ pc = "done"
    /\ status.protected_functions = {F}
    /\ status.unprotected_functions = {F, G}
    /\ buffer[1].text[1] = "~"

(***************************************************************************)
(* C8. For every PE input the ASLR verdict follows this table, the first   *)
(* matching row deciding: IMAGE_FILE_RELOCS_STRIPPED set gives             *)
(* Unsupported, whatever else is set; no optional header gives Unknown;    *)
(* DYNAMIC_BASE clear gives Expensive; DYNAMIC_BASE with HIGH_ENTROPY_VA   *)
(* and LARGE_ADDRESS_AWARE gives Supported; DYNAMIC_BASE with              *)
(* HIGH_ENTROPY_VA and without LARGE_ADDRESS_AWARE gives SupportedBelow2G; *)
(* DYNAMIC_BASE without HIGH_ENTROPY_VA gives, in a 64-bit image,          *)
(* SupportedLowEntropy with LARGE_ADDRESS_AWARE and                        *)
(* SupportedLowEntropyBelow2G without, and in a 32-bit image Supported     *)
(* with LARGE_ADDRESS_AWARE and SupportedBelow2G without.                  *)
(***************************************************************************)
C8_Coff(mask) == (pe.coff_characteristics \div mask) % 2 = 1
C8_Dll(mask) == (pe.optional_header[1].dll_characteristics \div mask) % 2 = 1
C8_Table ==
    IF C8_Coff(1) THEN "Unsupported"
    ELSE IF pe.optional_header = <<>> THEN "Unknown"
    ELSE IF ~C8_Dll(64) THEN "Expensive"
    ELSE IF C8_Dll(32) /\ C8_Coff(32) THEN "Supported"
    ELSE IF C8_Dll(32) THEN "SupportedBelow2G"
    ELSE IF pe.is_64 /\ C8_Coff(32) THEN "SupportedLowEntropy"
    ELSE IF pe.is_64 THEN "SupportedLowEntropyBelow2G"
    ELSE IF C8_Coff(32) THEN "Supported"
    ELSE "SupportedBelow2G"

C8_PeAslrFollowsTable ==
    Produced("ASLR") => out[VerdictOf("ASLR")].status = C8_Table

\* An image with stripped relocations and no optional header has been given
\* Unsupported, not Unknown.
C8_Witness ==
    /\ Produced("ASLR")
    /\ BitIsSet(pe.coff_characteristics, IMAGE_FILE_RELOCS_STRIPPED)
    /\ ~IsSome(pe.optional_header)
    /\ out[VerdictOf("ASLR")].status = "Unsupported"

(***************************************************************************)
(* C9. For every PE input the Control Flow Guard verdict is Unknown        *)
(* without an optional header, Unsupported when GUARD_CF is clear,         *)
(* Ineffective when GUARD_CF is set and DYNAMIC_BASE is clear, and         *)
(* Supported when both are set, whatever IMAGE_FILE_RELOCS_STRIPPED and    *)
(* every other bit hold.                                                   *)
(***************************************************************************)
C9_Dll(mask) == (pe.optional_header[1].dll_characteristics \div mask) % 2 = 1
C9_PeControlFlowGuardLevels ==
    Produced("CONTROL-FLOW-GUARD") =>
        out[VerdictOf("CONTROL-FLOW-GUARD")].status =
            (IF pe.optional_header = <<>> THEN "Unknown"
             ELSE IF ~C9_Dll(16384) THEN "Unsupported"
             ELSE IF ~C9_Dll(64) THEN "Ineffective"
             ELSE "Supported")

\* An image with stripped relocations, GUARD_CF set and DYNAMIC_BASE clear
\* has been given Ineffective.
C9_Witness ==
    /\ Produced("CONTROL-FLOW-GUARD")
    /\ BitIsSet(pe.coff_characteristics, IMAGE_FILE_RELOCS_STRIPPED)
    /\ IsSome(pe.optional_header)
    /\ BitIsSet(Unwrap(pe.optional_header).dll_characteristics,
                IMAGE_DLLCHARACTERISTICS_GUARD_CF)
    /\ ~BitIsSet(Unwrap(pe.optional_header).dll_characteristics,
                 IMAGE_DLLCHARACTERISTICS_DYNAMIC_BASE)
    /\ out[VerdictOf("CONTROL-FLOW-GUARD")].status = "Ineffective"

(***************************************************************************)
(* C10. For every PE input the Safe-SEH check completes with the verdict   *)
(* yes or no, and the verdict is yes exactly when the load configuration   *)
(* chain yields an SEHandlerCount greater than zero or a section named     *)
(* `.pdata` with initialized data and read access exists.  The chain       *)
(* yields a count when there is an optional header with a load             *)
(* configuration directory of non-zero size, some initialized-data,        *)
(* readable section contains the directory's address range, the size       *)
(* declared in the file at the directory's offset covers SEHandlerCount,   *)
(* and the count lies inside the file; in every other case the verdict is  *)
(* the `.pdata` check.  Addresses are compared as the numbers they are.    *)
(***************************************************************************)
C10_Sum(a, b) ==
    [hi |-> a.hi + b.hi + ((a.lo + b.lo) \div 65536), lo |-> (a.lo + b.lo) % 65536]
C10_Difference(a, b) ==
    IF a.lo >= b.lo THEN [hi |-> a.hi - b.hi, lo |-> a.lo - b.lo]
    ELSE [hi |-> a.hi - b.hi - 1, lo |-> a.lo + 65536 - b.lo]
C10_AtMost(a, b) == a.hi < b.hi \/ (a.hi = b.hi /\ a.lo <= b.lo)
C10_Qualifies(s) ==
    /\ (s.characteristics \div 64) % 2 = 1
    /\ (s.characteristics \div 1073741824) % 2 = 1
C10_QualifyingPdata ==
    \E i \in 1..Len(pe.sections) :
        /\ C10_Qualifies(pe.sections[i])
        /\ pe.sections[i].name = [kind |-> "str", s |-> <<".", "p", "d", "a", "t", "a">>]
C10_HasDirectory ==
    /\ pe.optional_header # <<>>
    /\ pe.optional_header[1].load_config_table # <<>>
    /\ pe.optional_header[1].load_config_table[1].size # [hi |-> 0, lo |-> 0]
C10_Directory == pe.optional_header[1].load_config_table[1]
C10_Contains(s) ==
    /\ C10_Qualifies(s)
    /\ C10_AtMost(s.virtual_address, C10_Directory.virtual_address)
    /\ C10_AtMost(C10_Sum(C10_Directory.virtual_address, C10_Directory.size),
                  C10_Sum(s.virtual_address, s.virtual_size))
C10_Contained == \E i \in 1..Len(pe.sections) : C10_Contains(pe.sections[i])
C10_Holder ==
    pe.sections[CHOOSE i \in 1..Len(pe.sections) :
                    /\ C10_Contains(pe.sections[i])
                    /\ \A j \in 1..(i - 1) : ~C10_Contains(pe.sections[j])]
C10_Offset ==
    C10_Sum(C10_Holder.pointer_to_raw_data,
            C10_Difference(C10_Directory.virtual_address,
                           C10_Holder.virtual_address))
C10_InFile(k, width) ==
    C10_Offset.hi = 0 /\ C10_Offset.lo + k + width <= bytes.len
C10_Byte(k) ==
    IF C10_Offset.lo + k \in DOMAIN bytes.data
    THEN bytes.data[C10_Offset.lo + k] ELSE 0
C10_DeclaredSizeCovers(n) ==
    \/ C10_Byte(2) # 0
    \/ C10_Byte(3) # 0
    \/ C10_Byte(0) + 256 * C10_Byte(1) >= n
C10_CountAt(k, width) ==
    /\ C10_InFile(0, 4)
    /\ C10_DeclaredSizeCovers(k + width)
    /\ C10_InFile(k, width)
    /\ \E j \in 0..(width - 1) : C10_Byte(k + j) # 0
C10_ChainYieldsHandlers ==
    /\ C10_HasDirectory
    /\ C10_Contained
    /\ IF pe.is_64 THEN C10_CountAt(104, 8) ELSE C10_CountAt(68, 4)

C10_SafeSehNeverFailsAndFallsBack ==
    pc \in {"done", "panic"} =>
        /\ pc = "done"
        /\ Produced("SAFE-SEH")
        /\ out[VerdictOf("SAFE-SEH")].status =
               (IF C10_ChainYieldsHandlers \/ C10_QualifyingPdata
                THEN "yes" ELSE "no")

(***************************************************************************)
(* C11. For an archive whose members all extract and parse as ELF, the     *)
(* stack-protection verdict is yes exactly when some member, at any        *)
(* position, has in its static symbol table a named symbol of type         *)
(* function, indirect function or no-type called `__stack_chk_fail` or     *)
(* `__stack_chk_fail_local`, and no otherwise; no member after the first   *)
(* such member is examined.                                                *)
(***************************************************************************)
C11_AllElf ==
    \A i \in 1..Len(archive) : archive[i].extracted /\ archive[i].object = "Elf"
C11_Satisfies(m) ==
    \E i \in 1..Len(m.syms) :
        /\ m.syms[i].st_type \in {0, 2, 10}
        /\ m.syms[i].name.kind = "str"
        /\ m.syms[i].name.s \in {STACK_CHK_FAIL, STACK_CHK_FAIL_LOCAL}
C11_FirstSatisfying ==
    CHOOSE i \in 1..Len(archive) :
        /\ C11_Satisfies(archive[i])
        /\ \A j \in 1..(i - 1) : ~C11_Satisfies(archive[j])
C11_ArchiveStackProtectionAnyMember ==
    (pc # "AR-STACK-PROT" /\ C11_AllElf) =>
        /\ pc = "done"
        /\ IF \E i \in 1..Len(archive) : C11_Satisfies(archive[i])
           THEN /\ out[VerdictOf("STACK-PROT")].status = "yes"
                /\ examined = C11_FirstSatisfying
           ELSE /\ out[VerdictOf("STACK-PROT")].status = "no"
                /\ examined = Len(archive)

\* An archive of two ELF members, of which only the second names
\* `__stack_chk_fail_local`, has been given yes.
C11_Witness ==
    /\ pc = "done"
    /\ C11_AllElf
    /\ Len(archive) = 2
    /\ ~C11_Satisfies(archive[1])
    /\ \E i \in 1..Len(archive[2].syms) :
           archive[2].syms[i].name = Str(STACK_CHK_FAIL_LOCAL)
    /\ out[VerdictOf("STACK-PROT")].status = "yes"

(***************************************************************************)
(* C12. For every archive that holds a member that is not a readable ELF   *)
(* object together with a satisfying ELF member, in every order of the     *)
(* members, the analysis ends with an error for a member that is not a     *)
(* readable ELF object, and with no stack-protection verdict.              *)
(***************************************************************************)
C12_NotElf(m) == ~m.extracted \/ m.object # "Elf"
C12_Satisfies(m) ==
    /\ ~C12_NotElf(m)
    /\ \E i \in 1..Len(m.syms) :
        /\ m.syms[i].st_type \in {0, 2, 10}
        /\ m.syms[i].name.kind = "str"
        /\ m.syms[i].name.s \in {STACK_CHK_FAIL, STACK_CHK_FAIL_LOCAL}
C12_Mixed ==
    /\ \E i \in 1..Len(archive) : C12_NotElf(archive[i])
    /\ \E i \in 1..Len(archive) : C12_Satisfies(archive[i])
C12_NonElfMemberAlwaysError ==
    (pc # "AR-STACK-PROT" /\ C12_Mixed) =>
        /\ pc = "error"
        /\ out = <<>>
        /\ error # <<>>
        /\ C12_NotElf(archive[error[1].name])

(***************************************************************************)
(* C12, amended.  For such an archive the first member that is either not  *)
(* a readable ELF object or a satisfying ELF member decides: if it is not  *)
(* a readable ELF object the analysis ends with an error for that member   *)
(* and no verdict; if it is a satisfying ELF member the verdict is yes and *)
(* no later member is examined.                                            *)
(***************************************************************************)
C12_Deciding ==
    CHOOSE i \in 1..Len(archive) :
        /\ C12_NotElf(archive[i]) \/ C12_Satisfies(archive[i])
        /\ \A j \in 1..(i - 1) :
               ~C12_NotElf(archive[j]) /\ ~C12_Satisfies(archive[j])
C12_FirstDecidingMemberDecides ==
    (pc # "AR-STACK-PROT" /\ C12_Mixed) =>
        /\ examined = C12_Deciding
        /\ IF C12_NotElf(archive[C12_Deciding])
           THEN /\ pc = "error"
                /\ out = <<>>
                /\ error # <<>>
                /\ error[1].name = C12_Deciding
           ELSE /\ pc = "done"
                /\ error = <<>>
                /\ out[VerdictOf("STACK-PROT")].status = "yes"

\* A PE member enumerated before a satisfying ELF member has ended the
\* analysis with UnexpectedBinaryFormat for the PE member.
C12_Witness ==
    /\ pc = "error"
    /\ Len(archive) = 2
    /\ archive[1].object = "PE"
    /\ C12_Satisfies(archive[2])
    /\ error = Some(Error("UnexpectedBinaryFormat", 1))

(***************************************************************************)
(* C13. Automatic libc resolution: without a sysroot, when the cache has   *)
(* an entry for a name whose file opens as an ELF of the executable's      *)
(* machine, open_compatible_libc returns that library, also when a file    *)
(* for the name exists at a well-known path; a well-known path of a name   *)
(* is probed only when no cache entry of the name opens as such an ELF;    *)
(* with a sysroot the cache is neither loaded nor consulted.               *)
(***************************************************************************)
C13_Acted(t) == tasks[t].pc \in {"done", "error"} /\ IsSome(tasks[t].resolver)

C13_OpensAsElf(path) ==
    \E f \in fs : f.path = path /\ f.object = "Elf" /\ f.e_machine = e_machine

C13_CacheHits(file_name) ==
    {k \in 1..Len(ld_so_cache_file.entries) :
        /\ ld_so_cache_file.entries[k].ok
        /\ ld_so_cache_file.entries[k].file_name = file_name
        /\ C13_OpensAsElf(ld_so_cache_file.entries[k].full_path)}

C13_FirstHit(file_name) ==
    ld_so_cache_file.entries[
        CHOOSE k \in C13_CacheHits(file_name) :
            \A j \in C13_CacheHits(file_name) : k <= j].full_path

C13_LibraryAt(path) ==
    NeededLibC(get_checked_functions_elf(
        (CHOOSE f \in fs : f.path = path).dynsyms))

C13_Needed == {k \in 1..Len(libraries) : libraries[k] \in {LIBC_SO_6, LIBBIONIC_SO}}

C13_FirstNeeded == libraries[CHOOSE k \in C13_Needed : \A j \in C13_Needed : k <= j]

C13_IsWellKnownPath(path, file_name) ==
    \E prefix \in {<<>>, <<"u", "s", "r">>},
       lib \in {<<"l", "i", "b">>, <<"l", "i", "b", "6", "4">>,
                <<"l", "i", "b", "3", "2">>} :
        path = Join(Join(Join(IF IsSome(sysroot) THEN Unwrap(sysroot) ELSE ROOT,
                              prefix), lib), file_name)

C13_CachePaths ==
    {ld_so_cache_file.entries[k].full_path : k \in 1..Len(ld_so_cache_file.entries)}

C13_CacheBeforeWellKnownPaths ==
    \A t \in DOMAIN tasks :
        C13_Acted(t) =>
            /\ (/\ ~IsSome(sysroot)
                /\ C13_Needed # {}
                /\ ld_so_cache_file.iterable
                /\ C13_CacheHits(C13_FirstNeeded) # {})
               => /\ Unwrap(tasks[t].result) = Ok(C13_LibraryAt(C13_FirstHit(C13_FirstNeeded)))
                  /\ \A i \in 1..Len(tasks[t].opened) :
                         tasks[t].opened[i] \in C13_CachePaths
            /\ \A i \in 1..Len(tasks[t].opened), file_name \in LibraryNames :
                   C13_IsWellKnownPath(tasks[t].opened[i], file_name)
                   => IsSome(sysroot) \/ C13_CacheHits(file_name) = {}
            /\ IsSome(sysroot)
               => /\ loads = 0
                  /\ ~IsSome(Unwrap(tasks[t].resolver).ld_so_cache)
                  /\ \A i \in 1..Len(tasks[t].opened) :
                         tasks[t].opened[i] \notin C13_CachePaths

\* Cache entry and well-known file for libc.so.6 export different functions,
\* and the task ended with the cache entry's library.
C13_Witness ==
    /\ ~IsSome(sysroot)
    /\ libraries = <<LIBC_SO_6>>
    /\ C13_CacheHits(LIBC_SO_6) # {}
    /\ C13_OpensAsElf(<< <<"l", "i", "b">>, LIBC_SO_6 >>)
    /\ C13_LibraryAt(<< <<"l", "i", "b">>, LIBC_SO_6 >>)
           # C13_LibraryAt(C13_FirstHit(LIBC_SO_6))
    /\ tasks[1].pc = "done"
    /\ Unwrap(tasks[1].result) = Ok(C13_LibraryAt(C13_FirstHit(LIBC_SO_6)))

(***************************************************************************)
(* C14. find_needed_by_executable fails with UnrecognizedNeededLibC when   *)
(* no needed name matches the libc pattern, and with NotFoundNeededLibC    *)
(* when a name matches but none of its candidate locations could be        *)
(* opened and parsed.                                                      *)
(***************************************************************************)
C14_Failed(t) == tasks[t].pc = "error" /\ IsSome(tasks[t].resolver)

C14_SomeNameMatches ==
    \E k \in 1..Len(libraries) : libraries[k] \in {LIBC_SO_6, LIBBIONIC_SO}

C14_ErrorKindTellsWhy ==
    \A t \in DOMAIN tasks :
        C14_Failed(t) =>
            Unwrap(tasks[t].result).value.kind =
                IF C14_SomeNameMatches THEN "NotFoundNeededLibC"
                ELSE "UnrecognizedNeededLibC"

(***************************************************************************)
(* C19. Whatever the number of tasks calling LibCResolver::get at once,    *)
(* the cache load of LibCResolver::new is executed at most once, every     *)
(* call that returns Ok returns the one resolver held by LIBC_RESOLVER,    *)
(* and that resolver never changes once the cell is initialised.           *)
(***************************************************************************)
C19_Returned(t) == IsSome(tasks[t].resolver)

C19_SameResolver ==
    /\ loads <= 1
    /\ Cardinality({t \in DOMAIN tasks : tasks[t].pc = "new"}) <= 1
    /\ \A t \in DOMAIN tasks :
           C19_Returned(t) =>
               /\ LIBC_RESOLVER.state = "init"
               /\ tasks[t].resolver = LIBC_RESOLVER.value

C19_NeverMutated == LIBC_RESOLVER.state = "init" => LIBC_RESOLVER' = LIBC_RESOLVER

C19_ResolverInitialisedOnce == []C19_SameResolver /\ [][C19_NeverMutated]_vars

\* Three tasks got the resolver, and the cache was loaded for it once.
C19_Witness ==
    /\ Len(tasks) = 3
    /\ \A t \in DOMAIN tasks : C19_Returned(t) /\ tasks[t].pc \in {"done", "error"}
    /\ loads = 1

(***************************************************************************)
(* C20. For every PE input each DllCharacteristics bit option is unknown   *)
(* when the optional header is absent, and otherwise yes exactly when the  *)
(* bit's state equals the expected presence: DATA-EXEC-PREVENT,            *)
(* RUNS-IN-APP-CONTAINER and VERIFY-DIGITAL-CERT are yes iff NX_COMPAT,    *)
(* APPCONTAINER and FORCE_INTEGRITY are set, CONSIDER-MANIFEST is yes iff  *)
(* NO_ISOLATION is clear.                                                  *)
(***************************************************************************)
C20_Bit(mask) == (pe.optional_header[1].dll_characteristics \div mask) % 2 = 1

C20_Expected(yes) ==
    IF pe.optional_header = <<>> THEN "unknown" ELSE IF yes THEN "yes" ELSE "no"

C20_DllCharacteristicsBitOptions ==
    /\ Produced("DATA-EXEC-PREVENT") =>
           out[VerdictOf("DATA-EXEC-PREVENT")].status = C20_Expected(C20_Bit(256))
    /\ Produced("RUNS-IN-APP-CONTAINER") =>
           out[VerdictOf("RUNS-IN-APP-CONTAINER")].status = C20_Expected(C20_Bit(4096))
    /\ Produced("VERIFY-DIGITAL-CERT") =>
           out[VerdictOf("VERIFY-DIGITAL-CERT")].status = C20_Expected(C20_Bit(128))
    /\ Produced("CONSIDER-MANIFEST") =>
           out[VerdictOf("CONSIDER-MANIFEST")].status = C20_Expected(~C20_Bit(512))

\* An image with NX_COMPAT set and the other three bits clear got yes for
\* DATA-EXEC-PREVENT and CONSIDER-MANIFEST and no for the other two.
C20_Witness ==
    /\ pe.optional_header # <<>>
    /\ C20_Bit(256) /\ ~C20_Bit(4096) /\ ~C20_Bit(128) /\ ~C20_Bit(512)
    /\ Produced("VERIFY-DIGITAL-CERT")
    /\ out[VerdictOf("DATA-EXEC-PREVENT")].status = "yes"
    /\ out[VerdictOf("RUNS-IN-APP-CONTAINER")].status = "no"
    /\ out[VerdictOf("CONSIDER-MANIFEST")].status = "yes"
    /\ out[VerdictOf("VERIFY-DIGITAL-CERT")].status = "no"

(***************************************************************************)
(* C18. With a fixed spec version the fortify check opens no library file: *)
(* the resolver is not touched.  The libc it uses holds no checked         *)
(* function under lsb1 .. lsb3dot2, and exactly one CheckedFunction        *)
(* `__<name>_chk` per entry of the static table under lsb4, lsb4dot1 and   *)
(* lsb5; under lsb1 .. lsb3dot2 both fortify name sets are empty for every *)
(* ELF.                                                                    *)
(***************************************************************************)
C18_Checked(k) ==
    [checked_name |-> <<"_", "_">> \o LSB_4_0_0_FUNCTIONS_WITH_CHECKED_VERSIONS[k]
                          \o <<"_", "c", "h", "k">>]

C18_Entries == 1..Len(LSB_4_0_0_FUNCTIONS_WITH_CHECKED_VERSIONS)

C18_FixedSpecGatesCheckedFunctions ==
    (pc # "FORTIFY-SOURCE" /\ IsSome(libc_spec)) =>
        /\ tasks = <<>> /\ loads = 0 /\ LIBC_RESOLVER.state = "uninit"
        /\ IF Unwrap(libc_spec) \in {"lsb4", "lsb4dot1", "lsb5"}
           THEN /\ libc = {C18_Checked(k) : k \in C18_Entries}
                /\ Cardinality(libc) = Cardinality(C18_Entries)
           ELSE /\ libc = {}
                /\ pc = "done"
                /\ out[1].protected = {} /\ out[1].unprotected = {}

\* Under lsb5, an ELF needing libc.so.6 where /lib/libc.so.6 exists was
\* classified from the table alone: memcpy unprotected, nothing protected.
C18_Witness ==
    /\ libc_spec = Some("lsb5")
    /\ libraries = <<LIBC_SO_6>> /\ fs # {}
    /\ pc = "done"
    /\ C18_Checked(1) \in libc
    /\ tasks = <<>>
    /\ out[1].unprotected = {MEMCPY} /\ out[1].protected = {}

(***************************************************************************)
(* C17. As stated: every analyzer that ends has produced exactly one       *)
(* verdict per property, in the fixed order of its format, and never ends  *)
(* in an error.                                                            *)
(***************************************************************************)
C17_ElfOrder ==
    <<"ASLR", "STACK-PROT", "READ-ONLY-RELOC", "IMMEDIATE-BIND", "FORTIFY-SOURCE">>

C17_PeOrder ==
    <<"CHECKSUM", "DATA-EXEC-PREVENT", "RUNS-IN-APP-CONTAINER", "CONSIDER-MANIFEST",
      "VERIFY-DIGITAL-CERT", "CONTROL-FLOW-GUARD", "HANDLES-ADDR-GT-2GB", "ASLR",
      "SAFE-SEH">>

C17_ArchiveOrder == <<"STACK-PROT">>

C17_Order ==
    IF elf # NoElf THEN C17_ElfOrder
    ELSE IF pe # NoPe THEN C17_PeOrder
    ELSE C17_ArchiveOrder

C17_Names == [k \in 1..Len(out) |-> out[k].name]

C17_OneVerdictPerPropertyNeverFailure ==
    pc \in {"done", "error"} => C17_Names = C17_Order

(***************************************************************************)
(* C17, amended.  An analyzer that returns verdicts returns exactly one    *)
(* per property in the fixed order of its format, and a PE without         *)
(* optional header gets unknown for the six checks that read nothing else  *)
(* (ASLR reads IMAGE_FILE_RELOCS_STRIPPED before it).  An analyzer         *)
(* returns an error, and no verdict, only for an ELF analysed              *)
(* without a fixed spec version whose libc cannot be resolved, and for an  *)
(* archive whose scan reaches a member that is not a readable ELF.         *)
(***************************************************************************)
C17_ReadsOptionalHeader ==
    {"CHECKSUM", "DATA-EXEC-PREVENT", "RUNS-IN-APP-CONTAINER", "CONSIDER-MANIFEST",
     "VERIFY-DIGITAL-CERT", "CONTROL-FLOW-GUARD"}

C17_Unresolvable ==
    /\ elf # NoElf
    /\ ~IsSome(libc_spec)
    /\ \/ ~ld_so_cache_file.loadable
       \/ \A k \in 1..Len(libraries) : libraries[k] \notin {LIBC_SO_6, LIBBIONIC_SO}
       \/ fs = {}

C17_BadMemberReached ==
    /\ elf = NoElf /\ pe = NoPe
    /\ examined \in 1..Len(archive)
    /\ ~(archive[examined].extracted /\ archive[examined].object = "Elf")

C17_VerdictsInOrderOrTypedError ==
    /\ pc = "done" =>
           /\ C17_Names = C17_Order
           /\ (pe # NoPe /\ pe.optional_header = <<>>) =>
                  \A k \in 1..Len(out) :
                      out[k].name \in C17_ReadsOptionalHeader
                      => out[k].status \in {"unknown", "Unknown"}
    /\ pc = "error" =>
           /\ out = <<>>
           /\ IsSome(error)
           /\ C17_Unresolvable \/ C17_BadMemberReached
    /\ (C17_Unresolvable /\ pc \notin {"ASLR", "STACK-PROT", "READ-ONLY-RELOC",
                                       "IMMEDIATE-BIND", "FORTIFY-SOURCE"})
           => pc = "error"

\* An ELF with no needed libc, analysed without a fixed spec version, ended
\* with UnrecognizedNeededLibC and returned none of its four verdicts.
C17_Witness ==
    /\ elf # NoElf
    /\ libraries = <<>> /\ ~IsSome(libc_spec) /\ ld_so_cache_file.loadable
    /\ pc = "error"
    /\ error = Some(Error("UnrecognizedNeededLibC", ROOT))

(***************************************************************************)
(* C15. When run returns, each input path is in exactly one of successes   *)
(* and errors, so the two lengths add up to the number of inputs; and a    *)
(* path is among the successes exactly when the analysis of its own file   *)
(* succeeds, whatever the other inputs are and whatever the order in       *)
(* which the workers ran.                                                  *)
(***************************************************************************)
C15_Returned == pc # "run" /\ \A path \in DOMAIN results : IsSome(results[path])

C15_InSuccesses(path) == \E k \in 1..Len(successes) : successes[k].path = path

C15_Occurrences(path) ==
    Cardinality({k \in 1..Len(successes) : successes[k].path = path})
    + Cardinality({k \in 1..Len(errors) : errors[k].path = path})

C15_LibCResolves(file) ==
    /\ ~IsSome(sysroot) /\ ld_so_cache_file.loadable
    /\ \E k \in 1..Len(file.libraries), f \in fs :
           /\ file.libraries[k] = LIBC_SO_6
           /\ f.path = << <<"l", "i", "b">>, LIBC_SO_6 >>
           /\ f.object = "Elf" /\ f.e_machine = e_machine

C15_OwnAnalysisSucceeds(file) ==
    \/ file.object = "PE"
    \/ file.object = "Elf" /\ C15_LibCResolves(file)
    \/ /\ file.object = "Archive"
       /\ \A k \in 1..Len(file.members) :
              file.members[k].extracted /\ file.members[k].object = "Elf"

C16_Displayed(path) == \E k \in 1..Len(logged) : logged[k] = path

C16_Printed(path) == \E k \in 1..Len(stdout) : stdout[k] = path

C16_ErrorsDisplayedOthersPrinted ==
    pc = "exit" =>
        /\ errors # <<>> =>
               /\ exit_code = 1
               /\ \A k \in 1..Len(errors) : C16_Displayed(errors[k].path)
               /\ \A k \in 1..Len(successes) : C16_Printed(successes[k].path)
        /\ exit_code = 0 =>
               /\ errors = <<>>
               /\ \A k \in 1..Len(successes) : C16_Printed(successes[k].path)

(***************************************************************************)
(* C21. process_file dispatches on the container kind: an ELF, a PE and an *)
(* archive get the result of their own analyzer, a Mach-O container always *)
(* gets the error UnsupportedBinaryFormat, an unknown container always the *)
(* error UnknownBinaryFormat; and whenever the result is an error nothing  *)
(* was written to the file's color buffer.                                 *)
(***************************************************************************)
C21_Analyzer(object) ==
    IF object = "Elf" THEN "ELF" ELSE IF object = "PE" THEN "PE" ELSE "Archive"

C21_ResolverErrors ==
    {"UnrecognizedNeededLibC", "NotFoundNeededLibC", "DynamicLoaderCache", "IO1"}

C21_Dispatched(path) ==
    LET object == input_files[path].object
        result == Unwrap(results[path])
    IN  /\ object = "Mach" => result = Err(Error("UnsupportedBinaryFormat", path))
        /\ object = "Unknown" => result = Err(Error("UnknownBinaryFormat", path))
        /\ object \in {"Elf", "PE", "Archive"} =>
              IF result.ok THEN result.value = C21_Analyzer(object)
              ELSE /\ object # "PE"
                   /\ object = "Elf" => result.value.kind \in C21_ResolverErrors
                   /\ object = "Archive" =>
                         result = archive_has_stack_protection(input_files[path].members)
        /\ ~result.ok => color_buffers[path] = <<>>
        /\ result.ok => color_buffers[path] # <<>>

C21_DispatchOnContainerKind ==
    \A path \in DOMAIN results : IsSome(results[path]) => C21_Dispatched(path)

\* A batch with a Mach-O container, an unknown container and an ELF whose
\* libc cannot be resolved has been processed whole.
C21_Witness ==
    /\ \A path \in DOMAIN results : IsSome(results[path])
    /\ \E a, b, c \in DOMAIN results :
          /\ input_files[a].object = "Mach"
          /\ input_files[b].object = "Unknown"
          /\ input_files[c].object = "Elf" /\ ~Unwrap(results[c]).ok
          /\ color_buffers[a] = <<>> /\ color_buffers[b] = <<>> /\ color_buffers[c] = <<>>

(***************************************************************************)
(* C22. For one candidate library name the well-known locations are        *)
(* probed in the order sysroot/lib, sysroot/usr/lib, sysroot/lib64,        *)
(* sysroot/usr/lib64, sysroot/lib32, sysroot/usr/lib32.  A location that   *)
(* cannot be opened, is not an ELF or has another e_machine is skipped;    *)
(* the first one that is an ELF of the executable's e_machine is the       *)
(* result, and the name fails only after all six were probed.              *)
(***************************************************************************)
C22_SysRoot == IF IsSome(sysroot) THEN Unwrap(sysroot) ELSE ROOT

C22_Locations(file_name) ==
    << C22_SysRoot \o << <<"l", "i", "b">>, file_name >>,
       C22_SysRoot \o << <<"u", "s", "r">>, <<"l", "i", "b">>, file_name >>,
       C22_SysRoot \o << <<"l", "i", "b", "6", "4">>, file_name >>,
       C22_SysRoot \o << <<"u", "s", "r">>, <<"l", "i", "b", "6", "4">>, file_name >>,
       C22_SysRoot \o << <<"l", "i", "b", "3", "2">>, file_name >>,
       C22_SysRoot \o << <<"u", "s", "r">>, <<"l", "i", "b", "3", "2">>, file_name >> >>

C22_Usable(path) ==
    \E f \in fs : f.path = path /\ f.object = "Elf" /\ f.e_machine = e_machine

C22_Hits(file_name) ==
    {i \in 1..6 : C22_Usable(C22_Locations(file_name)[i])}

C22_First(file_name) ==
    CHOOSE i \in C22_Hits(file_name) : \A j \in C22_Hits(file_name) : i <= j

\* The cache, when there is one, has entries for the name that open.
C22_InCache(file_name) ==
    /\ ~IsSome(sysroot)
    /\ \E k \in 1..Len(ld_so_cache_file.entries) :
          /\ ld_so_cache_file.entries[k].ok
          /\ ld_so_cache_file.entries[k].file_name = file_name
          /\ C22_Usable(ld_so_cache_file.entries[k].full_path)

\* The well-known locations are probed for the name: no cache is used, or
\* the cache could be read and gave nothing that opens.
C22_Reached(file_name) ==
    IsSome(sysroot) \/ (ld_so_cache_file.iterable /\ ~C22_InCache(file_name))

C22_Probed(file_name) ==
    IF ~C22_Reached(file_name) THEN <<>>
    ELSE IF C22_Hits(file_name) = {} THEN C22_Locations(file_name)
    ELSE SubSeq(C22_Locations(file_name), 1, C22_First(file_name))

C22_Resolves(file_name) ==
    \/ C22_InCache(file_name) /\ ld_so_cache_file.iterable
    \/ C22_Reached(file_name) /\ C22_Hits(file_name) # {}

C22_IsCandidate(k) == libraries[k] \in {LIBC_SO_6, LIBBIONIC_SO}

\* Library k is looked for: it is a candidate and no candidate before it
\* resolved.
C22_Tried(k) ==
    /\ C22_IsCandidate(k)
    /\ \A j \in 1..(k - 1) : C22_IsCandidate(j) => ~C22_Resolves(libraries[j])

RECURSIVE C22_ProbedFrom(_)
C22_ProbedFrom(k) ==
    IF k > Len(libraries) THEN <<>>
    ELSE (IF C22_Tried(k) THEN C22_Probed(libraries[k]) ELSE <<>>)
             \o C22_ProbedFrom(k + 1)

C22_IsWellKnown(path) ==
    \E file_name \in LibraryNames, i \in 1..6 : path = C22_Locations(file_name)[i]

C22_Acted(t) == tasks[t].pc \in {"done", "error"} /\ IsSome(tasks[t].resolver)

C23_Symbols == (CHOOSE f \in fs : TRUE).dynsyms

C23_Names == {<<>>, F, CHK, F_CHK, G_CHK}

C23_IsCheckedName(n) ==
    /\ Len(n) >= 2 /\ n[1] = "_" /\ n[2] = "_"
    /\ Len(n) >= 4 /\ SubSeq(n, Len(n) - 3, Len(n)) = <<"_", "c", "h", "k">>

C23_Qualifies(sym, n) ==
    /\ sym.name = [kind |-> "str", s |-> n] /\ n # <<>>
    /\ sym.st_other = STV_DEFAULT
    /\ sym.st_type \in {STT_FUNC, STT_GNU_IFUNC}
    /\ sym.st_value # 0
    /\ C23_IsCheckedName(n)

C23_Built == pc = "done" /\ (CHOOSE f \in fs : TRUE).object = "Elf"

C23_Stored(n) == [checked_name |-> n] \in libc

C24_NoWrap ==
    /\ C10_Sum(C10_Directory.virtual_address, C10_Directory.size).hi < 65536
    /\ \A i \in 1..Len(pe.sections) :
          C10_Sum(pe.sections[i].virtual_address, pe.sections[i].virtual_size).hi < 65536
    /\ C10_Offset.hi < 65536

\* The probe found the directory's bytes and read the size declared there.
C24_Probed ==
    /\ pc = "done"
    /\ C10_HasDirectory
    /\ C10_Contained
    /\ C24_NoWrap
    /\ C10_InFile(0, 4)

C24_DeclaredAtLeast(n) ==
    \/ C10_Byte(2) # 0
    \/ C10_Byte(3) # 0
    \/ C10_Byte(0) + 256 * C10_Byte(1) >= n

C24_NonZeroAt(k, width) ==
    /\ C10_InFile(k, width)
    /\ \E j \in 0..(width - 1) : C10_Byte(k + j) # 0

C24_Verdict == out[VerdictOf("SAFE-SEH")].status

C24_Fallback == IF C10_QualifyingPdata THEN "yes" ELSE "no"

C24_CountReadOnlyIfDeclaredSizeCovers ==
    C24_Probed =>
        IF pe.is_64
        THEN IF C24_DeclaredAtLeast(112)
             THEN C24_Verdict = (IF C24_NonZeroAt(104, 8) THEN "yes" ELSE C24_Fallback)
             ELSE C24_Verdict = C24_Fallback
        ELSE IF C24_DeclaredAtLeast(72)
             THEN C24_Verdict = (IF C24_NonZeroAt(68, 4) THEN "yes" ELSE C24_Fallback)
             ELSE C24_Verdict = C24_Fallback

\* A 64-bit image without .pdata whose directory declares 111 bytes and has
\* a non-zero byte where SEHandlerCount would be: the count was not read.
C24_Witness ==
    /\ C24_Probed
    /\ pe.is_64
    /\ ~C10_QualifyingPdata
    /\ C10_Byte(0) = 111 /\ ~C24_DeclaredAtLeast(112)
    /\ C24_NonZeroAt(104, 8)
    /\ C24_Verdict = "no"

(***************************************************************************)
(* C25. Over every sequence of open, object(), bytes() and drop, the       *)
(* parsed object never exists while the mapped bytes do not: a parser      *)
(* returned by a successful open holds Some(object), so object() never     *)
(* panics; a parse failure returns an error and exposes no parser; on drop *)
(* the object is cleared before the mapping is released; and the mapped    *)
(* bytes are never modified.                                               *)
(***************************************************************************)
C25_ObjectWithinBytes(p) ==
    /\ p.object # <<>> => p.bytes # <<>>
    /\ p.object # <<>> => p.object[1].borrows = p.file.content
    /\ p.bytes # <<>> => p.bytes[1] = p.file.content

C25_ExposedHoldsObject(p) ==
    /\ p.exposed => (p.object # <<>> /\ p.returned = <<[ok |-> TRUE, value |-> "parser"]>>)
    /\ p.last # <<"panic">>

C25_ParseFailureExposesNothing(p) ==
    (p.file.object = "ParseError") =>
        /\ ~p.exposed
        /\ p.returned # <<>> => ~p.returned[1].ok

C25_ObjectNeverOutlivesBytes ==
    \A i \in DOMAIN parsers :
        /\ C25_ObjectWithinBytes(parsers[i])
        /\ C25_ExposedHoldsObject(parsers[i])
        /\ C25_ParseFailureExposesNothing(parsers[i])

\* One parser was opened, asked for its object and dropped to the end;
\* another failed to parse and was dropped without being exposed.
C25_Witness ==
    \E i, j \in DOMAIN parsers :
        /\ parsers[i].pc = "dropped" /\ parsers[i].returned[1].ok
        /\ parsers[i].last = <<"object">>
        /\ parsers[i].bytes = <<>> /\ parsers[i].object = <<>>
        /\ parsers[j].pc = "dropped" /\ ~parsers[j].returned[1].ok
        /\ parsers[j].file.mappable

(***************************************************************************)
(* C26. Whatever the order in which the parallel tasks complete, the       *)
(* outcomes are presented in the order of the input paths: if file A       *)
(* precedes file B on the command line, A's verdict line or error is       *)
(* presented before B's.                                                   *)
(***************************************************************************)
C26_Printed(path) == \E k \in 1..Len(stdout) : stdout[k] = path
C26_Displayed(path) == \E k \in 1..Len(logged) : logged[k] = path
C26_Presented(path) == C26_Printed(path) \/ C26_Displayed(path)

\* main prints in its first loop and displays the errors in its second.
C26_Before(a, b) ==
    \/ \E i, j \in 1..Len(stdout) : stdout[i] = a /\ stdout[j] = b /\ i < j
    \/ \E i, j \in 1..Len(logged) : logged[i] = a /\ logged[j] = b /\ i < j
    \/ C26_Printed(a) /\ C26_Displayed(b)

C26_OutcomesInInputOrder ==
    \A a, b \in DOMAIN input_files :
        (a < b /\ C26_Presented(a) /\ C26_Presented(b)) => C26_Before(a, b)

(***************************************************************************)
(* C26, amended.  Whatever the order in which the parallel tasks complete, *)
(* the verdict lines are printed in the order of the input paths, the      *)
(* errors are displayed in the order of the input paths, and every verdict *)
(* line is printed before any error is displayed.                          *)
(***************************************************************************)
C26_Increasing(paths) ==
    \A i, j \in 1..Len(paths) : i < j => paths[i] < paths[j]

C26_SuccessPaths ==
    {path \in DOMAIN results : results[path] # <<>> /\ results[path][1].ok}

C26_VerdictsThenErrorsEachInInputOrder ==
    /\ C26_Increasing(stdout)
    /\ C26_Increasing(logged)
    /\ \A k \in 1..Len(stdout) :
          /\ stdout[k] \in C26_SuccessPaths
          /\ \A path \in C26_SuccessPaths : path < stdout[k] => C26_Printed(path)
    /\ \A k \in 1..Len(logged) : logged[k] \in DOMAIN results \ C26_SuccessPaths
    /\ logged # <<>> =>
          /\ \A path \in C26_SuccessPaths : C26_Printed(path)
          /\ \A path \in DOMAIN results \ C26_SuccessPaths : C26_Displayed(path)

\* Of three files the first failed and the others succeeded: the verdict
\* lines of the second and third were printed before the first's error.
C26_Witness ==
    /\ pc = "exit"
    /\ Len(input_files) = 3
    /\ stdout = <<2, 3>>
    /\ logged = <<1>>

(***************************************************************************)
(* C27. get_unchecked_name is defined, its slice bounds 2 .. len - 4 being *)
(* valid, for every name function_is_checked_version accepts, hence for    *)
(* every CheckedFunction get_checked_functions_elf stores from a library's *)
(* exported symbols, the shortest accepted names `__chk` and `___chk`      *)
(* included: no run of the library scan panics.                            *)
(***************************************************************************)
C27_Stored == IF pc = "done" THEN libc ELSE {}

C27_GetUncheckedNameDefined ==
    /\ pc # "panic"
    /\ \A cf \in C27_Stored :
          /\ function_is_checked_version(cf.checked_name)
          /\ ~get_unchecked_name(cf).panic

(***************************************************************************)
(* C28. In the load-config probe all address arithmetic stays within 32    *)
(* bits, whatever the header values: the directory's address plus its      *)
(* size, a section's address plus its size, the directory's address minus  *)
(* the section's, and the section's raw-data pointer plus the offset in    *)
(* the section never wrap, so neither the containment test nor the file    *)
(* offset is computed from a wrapped value and no build panics.            *)
(***************************************************************************)
C28_Acted == pc \in {"done", "panic"}

\* With overflow checks every wrapped operation the probe evaluates is a
\* panic: the probe evaluates none exactly when it would not panic there.
C28_ArithmeticWithin32Bits ==
    C28_Acted =>
        /\ pc # "panic"
        /\ ~has_safe_seh_handlers(bytes, pe, TRUE).panic

(***************************************************************************)
(* C29. If the first initialisation of the process-wide resolver fails,    *)
(* the failure is permanent: the load is never attempted again, exactly    *)
(* the one call whose initialiser ran returns the original load error, and *)
(* every other call to LibCResolver::get, before or after it in any        *)
(* interleaving, returns an InvalidData I/O error and never a resolver.    *)
(***************************************************************************)
C29_Failed == LIBC_RESOLVER = [state |-> "init", value |-> <<>>]

C29_LoadError ==
    [ok |-> FALSE, value |-> [kind |-> "DynamicLoaderCache", name |-> <<>>]]
C29_InvalidData ==
    [ok |-> FALSE, value |-> [kind |-> "IO1", name |-> "load linker cache"]]

C29_Returning(e) == {t \in DOMAIN tasks : tasks[t].result = <<e>>}

\* Some call's initialiser has run and failed.
C29_FirstFailed == C29_Returning(C29_LoadError) # {}

C29_FailureSeen ==
    (C29_FirstFailed \/ C29_Failed) =>
        /\ C29_Failed
        /\ loads = 1
        /\ Cardinality(C29_Returning(C29_LoadError)) = 1
        /\ \A t \in DOMAIN tasks :
              /\ tasks[t].resolver = <<>>
              /\ tasks[t].pc \in {"get", "error"}
              /\ tasks[t].pc = "error" =>
                    t \in C29_Returning(C29_LoadError) \cup C29_Returning(C29_InvalidData)

C29_StaysFailed == C29_Failed => C29_Failed'

C29_FailedInitialisationIsPermanent == []C29_FailureSeen /\ [][C29_StaysFailed]_vars

\* Three calls have returned after a failed load: one the load error, the
\* other two the InvalidData error.
C29_Witness ==
    /\ C29_Failed
    /\ Len(tasks) = 3
    /\ \A t \in DOMAIN tasks : tasks[t].pc = "error"
    /\ Cardinality(C29_Returning(C29_InvalidData)) = 2

(***************************************************************************)
(* C30. After get_libc_functions_by_protection, for every ELF and every    *)
(* NeededLibC, each name in the protected set and each name in the         *)
(* unprotected set is the unchecked name of a CheckedFunction contained in *)
(* the NeededLibC; a name may be in both sets at once, when both `f` and   *)
(* `__f_chk` are imported; and when the NeededLibC is empty both sets are  *)
(* empty.                                                                  *)
(***************************************************************************)
C30_Returned == pc = "done"

C30_Sets == out[VerdictOf("FORTIFY-SOURCE")]

\* n is what is left of cf's name without its first two and last four
\* characters.
C30_IsUncheckedNameOf(n, cf) ==
    /\ Len(cf.checked_name) >= 6
    /\ n = [k \in 1..(Len(cf.checked_name) - 6) |-> cf.checked_name[k + 2]]

C30_NamesComeFromLibC ==
    C30_Returned =>
        /\ \A n \in C30_Sets.protected \cup C30_Sets.unprotected :
              \E cf \in libc : C30_IsUncheckedNameOf(n, cf)
        /\ libc = {} => (C30_Sets.protected = {} /\ C30_Sets.unprotected = {})

\* The executable imports f and __f_chk from a libc exporting __f_chk: f is
\* in both sets.
C30_Witness ==
    /\ C30_Returned
    /\ [checked_name |-> F_CHK] \in libc
    /\ F \in C30_Sets.protected
    /\ F \in C30_Sets.unprotected

=============================================================================
